---- MODULE Spec2Model ----
(***************************************************************************)
(* Model of the analysis-and-cleaning pipeline of data-quality-saas:       *)
(* backend/modules/cleaning.py, backend/modules/run_pipeline.py and the    *)
(* parts of the analyzers and of backend/api.py that feed them.            *)
(*                                                                         *)
(* A DataFrame is a record                                                 *)
(*   columns : sequence of column names                                    *)
(*   dtypes  : column name -> dtype string                                 *)
(*   index   : sequence of row labels                                      *)
(*   data    : column name -> sequence of cells                            *)
(* A cell is a record [t, n, s]: t is "num", "str", "bool" or "nan";       *)
(* numbers are fixed-point integers (Scale units per 1.0) so that the      *)
(* means, medians, quartiles and 1.5*IQR bounds the code computes on the   *)
(* bounded inputs are exact; strings are sequences of characters.          *)
(***************************************************************************)
EXTENDS Integers, Sequences, FiniteSets, TLC

VARIABLES
    entry,          \* the function or endpoint that was called ("" before)
    df_input,       \* the caller's dataset as it was when the call was made
    df_caller,      \* the caller's dataset object after the call returned
    req,            \* the arguments the caller supplied
    cfg,            \* the arguments clean_dataset received
    cleaned,        \* the dataset the call returned
    same_object,    \* whether the returned dataset is the caller's object
    trace,          \* the transforms the call applied, in the order of their returns
    legacy_fillna,  \* whether the installed pandas accepts fillna(method=...)
    reference,      \* analyzer specification: the reference dataset of the drift analyzer
    report,         \* analyzer specification: the report the last call returned
    job_storage,    \* service specification: the stored jobs, by job id
    uuid_count,     \* service specification: the job ids generated so far
    returned_jobs,  \* service specification: the job ids answered to a caller and not deleted since
    request,        \* service specification: the last request
    response,       \* service specification: the answer to the last request
    total_rows,     \* scorer specification: rows of the analysed dataset
    missing_counts, \* scorer specification: missing cells per column
    duplicate_count,\* scorer specification: rows equal to an earlier row
    total_outliers, \* scorer specification: multivariate outlier total
    issue_counts,   \* scorer specification: columns per inconsistency finding
    quality         \* scorer specification: result of calculate_quality_score

vars == <<entry, df_input, df_caller, req, cfg, cleaned, same_object, trace,
          legacy_fillna, reference, report,
          job_storage, uuid_count, returned_jobs, request, response,
          total_rows, missing_counts, duplicate_count, total_outliers,
          issue_counts, quality>>

cleanVars == <<entry, df_input, df_caller, req, cfg, cleaned, same_object, trace,
               legacy_fillna>>
analysisVars == <<reference, report>>
apiVars == <<job_storage, uuid_count, returned_jobs, request, response>>
scoreVars == <<total_rows, missing_counts, duplicate_count, total_outliers,
               issue_counts, quality>>

(***************************************************************************)
(* Bounds                                                                  *)
(***************************************************************************)
MaxRows == 4
MaxStepRows == 4
MaxScoreCols == 4
MaxIssueCols == 2
MaxAnalysisRows == 2
MaxDuplicateRows == 5
MaxDriftRows == 12
MaxJobs == 2

(***************************************************************************)
(* Cells and small helpers                                                 *)
(***************************************************************************)
Scale == 16 * 60

Num(x) == [t |-> "num", n |-> x, s |-> <<>>]
Str(x) == [t |-> "str", n |-> 0, s |-> x]
Bool(b) == [t |-> "bool", n |-> IF b THEN 1 ELSE 0, s |-> <<>>]
NaN == [t |-> "nan", n |-> 0, s |-> <<>>]

IsNa(c) == c.t = "nan"

Min2(a, b) == IF a <= b THEN a ELSE b
Max2(a, b) == IF a >= b THEN a ELSE b
Abs(x) == IF x < 0 THEN 0 - x ELSE x

RECURSIVE SumSeq(_)
SumSeq(s) == IF s = <<>> THEN 0 ELSE Head(s) + SumSeq(Tail(s))

\* the elements of s at the positions where keep is TRUE
Pick(s, positions) == [k \in 1..Len(positions) |-> s[positions[k]]]

Compress(s, keep) ==
    Pick(s, SelectSeq([i \in 1..Len(s) |-> i], LAMBDA i : keep[i]))

RECURSIVE InsertSorted(_, _)
InsertSorted(x, s) ==
    IF s = <<>> THEN <<x>>
    ELSE IF x <= Head(s) THEN <<x>> \o s
    ELSE <<Head(s)>> \o InsertSorted(x, Tail(s))

RECURSIVE SortNums(_)
SortNums(s) == IF s = <<>> THEN <<>> ELSE InsertSorted(Head(s), SortNums(Tail(s)))

NumsOf(cells) == [i \in 1..Len(cells) |-> cells[i].n]

NonNull(col) == SelectSeq(col, LAMBDA c : ~IsNa(c))

\* the non-missing numbers of a column, ascending
Values(col) == SortNums(NumsOf(NonNull(col)))

(***************************************************************************)
(* Characters and strings.                                                 *)
(***************************************************************************)
CharCode(ch) ==
    CASE ch = " " -> 32
      [] ch = "-" -> 45
      [] ch = "A" -> 65
      [] ch = "U" -> 85
      [] ch = "a" -> 97
      [] ch = "b" -> 98
      [] ch = "e" -> 101
      [] ch = "k" -> 107
      [] ch = "n" -> 110
      [] ch = "o" -> 111
      [] ch = "u" -> 117
      [] ch = "w" -> 119
      [] OTHER -> 127

IsSpace(ch) == ch = " "

RECURSIVE LexLess(_, _)
LexLess(a, b) ==
    IF b = <<>> THEN FALSE
    ELSE IF a = <<>> THEN TRUE
    ELSE IF CharCode(Head(a)) # CharCode(Head(b)) THEN CharCode(Head(a)) < CharCode(Head(b))
    ELSE LexLess(Tail(a), Tail(b))

RECURSIVE LStrip(_)
LStrip(s) == IF s # <<>> /\ IsSpace(Head(s)) THEN LStrip(Tail(s)) ELSE s

RECURSIVE RStrip(_)
RStrip(s) == IF s # <<>> /\ IsSpace(s[Len(s)]) THEN RStrip(SubSeq(s, 1, Len(s) - 1)) ELSE s

\* str.strip()
Strip(s) == RStrip(LStrip(s))

\* re.sub(r'\s+', ' ', x)
RECURSIVE CollapseSpaces(_)
CollapseSpaces(s) ==
    IF s = <<>> THEN <<>>
    ELSE IF IsSpace(Head(s))
         THEN <<" ">> \o CollapseSpaces(LStrip(s))
         ELSE <<Head(s)>> \o CollapseSpaces(Tail(s))

\* str(x) of a cell of an object column: a missing cell prints as "nan"
AsStr(c) == IF c.t = "str" THEN c.s ELSE <<"n", "a", "n">>

Unknown == <<"U", "n", "k", "n", "o", "w", "n">>

(***************************************************************************)
(* DataFrame primitives                                                    *)
(***************************************************************************)
ColSet(df) == {df.columns[i] : i \in 1..Len(df.columns)}
NRows(df) == Len(df.index)
RangeIndex(n) == [i \in 1..n |-> i - 1]

Row(df, i) == [c \in ColSet(df) |-> df.data[c][i]]

RowsOf(df) == [i \in 1..NRows(df) |-> Row(df, i)]

EarlierEqual(rows) == [i \in 1..Len(rows) |-> \E j \in 1..(i - 1) : rows[j] = rows[i]]

\* df.duplicated(): a row equal, on every column, to an earlier row
Duplicated(df) == EarlierEqual(RowsOf(df))

Negate(mask) == [i \in 1..Len(mask) |-> ~mask[i]]

BoolCells(mask) == [i \in 1..Len(mask) |-> Bool(mask[i])]

\* df[mask]: the rows where mask is TRUE, labels kept
KeepRows(df, mask) ==
    [df EXCEPT !.index = Compress(df.index, mask),
               !.data = [c \in ColSet(df) |-> Compress(df.data[c], mask)]]

\* df.reset_index(drop=True)
ResetIndex(df) == [df EXCEPT !.index = RangeIndex(NRows(df))]

\* df[name] = cells : a new column is appended, an existing one replaced
SetColumn(df, name, dtype, cells) ==
    [df EXCEPT
        !.columns = IF name \in ColSet(df) THEN df.columns ELSE Append(df.columns, name),
        !.dtypes = [c \in ColSet(df) \cup {name} |-> IF c = name THEN dtype ELSE df.dtypes[c]],
        !.data = [c \in ColSet(df) \cup {name} |-> IF c = name THEN cells ELSE df.data[c]]]

\* df.drop(columns=drop)
DropColumns(df, drop) ==
    [df EXCEPT
        !.columns = SelectSeq(df.columns, LAMBDA c: c \notin drop),
        !.dtypes = [c \in ColSet(df) \ drop |-> df.dtypes[c]],
        !.data = [c \in ColSet(df) \ drop |-> df.data[c]]]

MissingIn(col) == Len(SelectSeq(col, IsNa))

(***************************************************************************)
(* Objects.  A heap is a sequence of DataFrames and a reference is a       *)
(* position in it; a frame-valued call takes and returns st = [heap, ref,  *)
(* log].  DataFrame.copy() allocates a new object, an item assignment      *)
(* df[col] = ... writes the object the reference names.  log holds the     *)
(* transforms of clean_dataset that have returned, in that order.          *)
(***************************************************************************)
Ret(h, r) == [heap |-> h, ref |-> r, log |-> <<>>]

Deref(st) == st.heap[st.ref]

\* a faulty variant, for the sensitivity of the properties: an assignment in place of a copy, both names one object
DfCopyAlias(st) == st

\* df.copy()
DfCopy(st) == [st EXCEPT !.heap = Append(st.heap, Deref(st)), !.ref = Len(st.heap) + 1]

\* a new object holding df (the result of a pandas call that returns a frame)
New(st, df) == [st EXCEPT !.heap = Append(st.heap, df), !.ref = Len(st.heap) + 1]

\* in-place write of the object st names
Store(st, df) == [st EXCEPT !.heap[st.ref] = df]

\* the call of a transform has returned st
Logged(step, st) == [st EXCEPT !.log = Append(st.log, step)]

(***************************************************************************)
(* cleaning.py                                                             *)
(***************************************************************************)
NumericDtypes == {"int64", "float64", "Int64", "Float64"}

IsIntegral(c) == IsNa(c) \/ (c.t = "num" /\ c.n % Scale = 0)

AllCells(col, P(_)) == \A i \in 1..Len(col) : P(col[i])

\* df["_is_duplicate"] = df.duplicated(), in place (lines 9, 18, 28)
FlagDuplicates(st) ==
    Store(st, SetColumn(Deref(st), "_is_duplicate", "bool", BoolCells(Duplicated(Deref(st)))))

\* df.drop_duplicates().reset_index(drop=True): a new frame (lines 22, 26)
DropDuplicates(st) ==
    New(st, ResetIndex(KeepRows(Deref(st), Negate(Duplicated(Deref(st))))))

handle_duplicates(st, duplicate_report, strategy) ==
    IF ~duplicate_report.present THEN FlagDuplicates(st)
    ELSE IF strategy = "keep" THEN st
    ELSE IF strategy = "flag" THEN FlagDuplicates(st)
    ELSE IF strategy = "remove" THEN DropDuplicates(st)
    ELSE IF strategy = "auto"
         THEN IF duplicate_report.severity \in {"High", "Medium"}
              THEN DropDuplicates(st)
              ELSE FlagDuplicates(st)
    ELSE st

\* Series.median() / Series.mean(), missing cells skipped; NaN when none is left
MedianOf(v) ==
    IF Len(v) = 0 THEN NaN
    ELSE IF Len(v) % 2 = 1 THEN Num(v[(Len(v) + 1) \div 2])
    ELSE Num((v[Len(v) \div 2] + v[Len(v) \div 2 + 1]) \div 2)

Median(col) == MedianOf(Values(col))

MeanOf(v) == IF Len(v) = 0 THEN NaN ELSE Num(SumSeq(v) \div Len(v))

Mean(col) == MeanOf(Values(col))

Occurrences(col, v) == Cardinality({i \in 1..Len(col) : col[i] = Str(v)})

TextValues(col) == {col[i].s : i \in {j \in 1..Len(col) : ~IsNa(col[j])}}

MostFrequent(col, present) ==
    {v \in present : \A w \in present : Occurrences(col, v) >= Occurrences(col, w)}

\* Series.mode(dropna=True): the most frequent values; empty when all are missing
ModeValues(col) == MostFrequent(col, TextValues(col))

\* mode_values[0]: mode() returns its values in ascending order
Smallest(vs) == CHOOSE v \in vs : \A w \in vs : v = w \/ LexLess(v, w)

\* Series.fillna(value); filling with NaN changes nothing
FillNa(col, fill) == [i \in 1..Len(col) |-> IF IsNa(col[i]) THEN fill ELSE col[i]]

\* Series.fillna(method='ffill') and fillna(method='bfill')
RECURSIVE FFillFrom(_, _)
FFillFrom(col, last) ==
    IF col = <<>> THEN <<>>
    ELSE IF IsNa(Head(col)) THEN <<last>> \o FFillFrom(Tail(col), last)
    ELSE <<Head(col)>> \o FFillFrom(Tail(col), Head(col))

FFill(col) == FFillFrom(col, NaN)

Reverse(s) == [i \in 1..Len(s) |-> s[Len(s) + 1 - i]]

BFill(col) == Reverse(FFill(Reverse(col)))

IsDatetime(dtype) == dtype = "datetime64[ns]"

\* a faulty variant, for the sensitivity of the properties: an unrecognized strategy fills with the mean
NumericFill_ElseMean(col, strategy) ==
    IF strategy = "median" THEN Median(col)
    ELSE IF strategy = "zero" THEN Num(0)
    ELSE Mean(col)

\* lines 44-51
NumericFill(col, strategy) ==
    IF strategy = "median" THEN Median(col)
    ELSE IF strategy = "mean" THEN Mean(col)
    ELSE IF strategy = "zero" THEN Num(0)
    ELSE Median(col)

\* lines 53: a nullable-integer column refuses a fractional fill value
\* (TypeError, swallowed at line 67)
FillNumeric(df, col, fill) ==
    IF df.dtypes[col] \in {"int64", "Int64"} /\ ~IsIntegral(fill) THEN df
    ELSE SetColumn(df, col, df.dtypes[col], FillNa(df.data[col], fill))

\* lines 59-65
FillText(df, col, mode_values) ==
    SetColumn(df, col, df.dtypes[col],
              FillNa(df.data[col],
                     IF mode_values # {} THEN Str(Smallest(mode_values)) ELSE Str(Unknown)))

\* one iteration of the loop of impute_missing_values (lines 38-68); an
\* exception inside the try leaves the column as it was
ImputeColumn(df, col, strategy) ==
    IF MissingIn(df.data[col]) = 0 THEN df
    ELSE IF df.dtypes[col] \in NumericDtypes
         THEN FillNumeric(df, col, NumericFill(df.data[col], strategy))
    ELSE IF IsDatetime(df.dtypes[col])
         THEN IF legacy_fillna
              THEN SetColumn(df, col, df.dtypes[col], BFill(FFill(df.data[col])))
              ELSE df
    ELSE FillText(df, col, ModeValues(df.data[col]))

RECURSIVE ImputeColumns(_, _, _)
ImputeColumns(df, k, strategy) ==
    IF k > Len(df.columns) THEN df
    ELSE ImputeColumns(ImputeColumn(df, df.columns[k], strategy), k + 1, strategy)

ImputeInPlace(copy, strategy) == Store(copy, ImputeColumns(Deref(copy), 1, strategy))

impute_missing_values(st, strategy) == ImputeInPlace(DfCopy(st), strategy)

IsDigit(ch) == ch \in {"0", "1", "2", "3", "4", "5", "6", "7", "8", "9"}

\* re: the pattern matches s at position i; "d" stands for \d
MatchAt(s, i, pat) ==
    /\ i + Len(pat) - 1 <= Len(s)
    /\ \A k \in 1..Len(pat) :
          IF pat[k] = "d" THEN IsDigit(s[i + k - 1]) ELSE s[i + k - 1] = pat[k]

Contains(s, pat) == \E i \in 1..Len(s) : MatchAt(s, i, pat)

\* data_types.py lines 34-39
date_patterns ==
    << <<"d", "d", "d", "d", "-", "d", "d", "-", "d", "d">>,
       <<"d", "d", "/", "d", "d", "/", "d", "d", "d", "d">>,
       <<"d", "d", "-", "d", "d", "-", "d", "d", "d", "d">>,
       <<"d", "d", "d", "d", "/", "d", "d", "/", "d", "d">> >>

\* pd.to_datetime(errors='coerce') of one cell: text that is no date becomes NaT
ToDatetime(c) ==
    IF c.t = "str" /\ ~(\E p \in 1..Len(date_patterns) : Contains(c.s, date_patterns[p]))
    THEN NaN
    ELSE c

MapCells(col, F(_)) == [i \in 1..Len(col) |-> F(col[i])]

\* lines 80-86
FixDateColumn(df, col) ==
    IF col \in ColSet(df)
    THEN SetColumn(df, col, "datetime64[ns]", MapCells(df.data[col], ToDatetime))
    ELSE df

\* lines 88-94: astype('Int64') raises on a fractional value or on text, and
\* the column is then left as it was
FixIntColumn(df, col) ==
    IF /\ col \in ColSet(df)
       /\ df.dtypes[col] \in NumericDtypes
       /\ AllCells(df.data[col], IsIntegral)
    THEN SetColumn(df, col, "Int64", df.data[col])
    ELSE df

RECURSIVE FoldColumns(_, _, _, _)
FoldColumns(F(_, _), df, cols, k) ==
    IF k > Len(cols) THEN df ELSE FoldColumns(F, F(df, cols[k]), cols, k + 1)

FixTypesInPlace(copy, dtype_report) ==
    Store(copy,
          FoldColumns(FixIntColumn,
                      FoldColumns(FixDateColumn, Deref(copy),
                                  dtype_report.possible_date_columns, 1),
                      dtype_report.float_int_candidates, 1))

fix_data_types(st, dtype_report) ==
    IF ~dtype_report.present THEN st ELSE FixTypesInPlace(DfCopy(st), dtype_report)

\* str.lower() and the character classes of the regular expressions
Lower(ch) == IF ch = "A" THEN "a" ELSE IF ch = "I" THEN "i" ELSE IF ch = "U" THEN "u" ELSE ch

IsAlnum(ch) ==
    \/ IsDigit(ch)
    \/ (CharCode(ch) >= 65 /\ CharCode(ch) <= 90)
    \/ (CharCode(ch) >= 97 /\ CharCode(ch) <= 122)

\* line 113-114 on a stripped value
LowerAlnum(s) ==
    SelectSeq([i \in 1..Len(s) |-> Lower(s[i])], LAMBDA ch : IsAlnum(ch) \/ IsSpace(ch))

\* lines 110-116 for one value
NormalizeText(s, aggressive) ==
    IF aggressive THEN LowerAlnum(Strip(s)) ELSE CollapseSpaces(Strip(s))

NormalizeCells(col, aggressive) ==
    [i \in 1..Len(col) |-> Str(NormalizeText(AsStr(col[i]), aggressive))]

NormalizeColumn(df, col, aggressive) ==
    SetColumn(df, col, "object", NormalizeCells(df.data[col], aggressive))

RECURSIVE NormalizeColumns(_, _, _, _)
NormalizeColumns(df, cols, k, aggressive) ==
    IF k > Len(cols) THEN df
    ELSE NormalizeColumns(NormalizeColumn(df, cols[k], aggressive), cols, k + 1, aggressive)

\* select_dtypes(include=['object']).columns
TextColumns(df) == SelectSeq(df.columns, LAMBDA col : df.dtypes[col] = "object")

NormalizeInPlace(copy, aggressive) ==
    Store(copy, NormalizeColumns(Deref(copy), TextColumns(Deref(copy)), 1, aggressive))

normalize_text_columns(st, aggressive) == NormalizeInPlace(DfCopy(st), aggressive)

\* Series.quantile(q/4) with linear interpolation over the sorted non-missing values
Interpolate(v, lo, frac) ==
    IF frac = 0 THEN v[lo] ELSE v[lo] + ((v[lo + 1] - v[lo]) * frac) \div 4

Quantile(v, q) == Interpolate(v, ((Len(v) - 1) * q) \div 4 + 1, ((Len(v) - 1) * q) % 4)

\* [lower_bound, upper_bound] from Q1 and Q3 (lines 138-143)
IqrBounds(Q1, Q3) ==
    [lower |-> Q1 - (3 * (Q3 - Q1)) \div 2, upper |-> Q3 + (3 * (Q3 - Q1)) \div 2]

Bounds(v) == IqrBounds(Quantile(v, 1), Quantile(v, 3))

\* Series.clip(lower, upper); a missing cell stays missing
ClipCells(col, b) ==
    [i \in 1..Len(col) |->
        IF IsNa(col[i]) THEN col[i] ELSE Num(Max2(b.lower, Min2(b.upper, col[i].n)))]

\* lines 145.  A nullable-integer column refuses a fractional bound
\* (TypeError, swallowed at line 171).
ClipWith(st, df, col, b) ==
    IF df.dtypes[col] = "Int64" /\ (b.lower % Scale # 0 \/ b.upper % Scale # 0)
    THEN st
    ELSE Store(st, SetColumn(df, col, df.dtypes[col], ClipCells(df.data[col], b)))

\* lines 155-157: a comparison with a missing value is False (NA for Int64)
OutsideCells(col, dtype, b) ==
    [i \in 1..Len(col) |->
        IF IsNa(col[i])
        THEN IF dtype = "Int64" THEN NaN ELSE Bool(FALSE)
        ELSE Bool(col[i].n < b.lower \/ col[i].n > b.upper)]

AllFalse(col, dtype) ==
    [i \in 1..Len(col) |-> IF dtype = "Int64" /\ IsNa(col[i]) THEN NaN ELSE Bool(FALSE)]

\* lines 167-169
InsideMask(col, b) ==
    [i \in 1..Len(col) |-> ~IsNa(col[i]) /\ col[i].n >= b.lower /\ col[i].n <= b.upper]

NoRows(col) == [i \in 1..Len(col) |-> FALSE]

\* one method applied to one numeric column; v are its sorted non-missing
\* values.  With none, the quartiles and the bounds are NaN: clip changes
\* nothing, no cell is flagged, no row is inside the bounds.
ApplyMethod(st, df, col, method, v) ==
    IF method = "clip"
    THEN IF v = <<>> THEN st ELSE ClipWith(st, df, col, Bounds(v))
    ELSE IF method = "flag"
    THEN Store(st, SetColumn(df, col \o "_is_outlier", "bool",
                   IF v = <<>> THEN AllFalse(df.data[col], df.dtypes[col])
                   ELSE OutsideCells(df.data[col], df.dtypes[col], Bounds(v))))
    ELSE IF method = "remove"
    THEN New(st, KeepRows(df, IF v = <<>> THEN NoRows(df.data[col])
                              ELSE InsideMask(df.data[col], Bounds(v))))
    ELSE st

\* a faulty variant, for the sensitivity of the properties: "clip" drops the rows outside the bounds instead of clamping them
OutlierColumn_ClipDrops(st, col, method) ==
    IF col \notin ColSet(Deref(st)) THEN st
    ELSE IF Deref(st).dtypes[col] = "object" THEN st
    ELSE ApplyMethod(st, Deref(st), col, IF method = "clip" THEN "remove" ELSE method,
                     Values(Deref(st).data[col]))

\* one iteration of the loop of handle_outliers (lines 132-172); quantile()
\* raises on a text column and the column is skipped
OutlierColumn(st, col, method) ==
    IF col \notin ColSet(Deref(st)) THEN st
    ELSE IF Deref(st).dtypes[col] = "object" THEN st
    ELSE ApplyMethod(st, Deref(st), col, method, Values(Deref(st).data[col]))

RECURSIVE OutlierColumns(_, _, _, _)
OutlierColumns(st, cols, k, method) ==
    IF k > Len(cols) THEN st
    ELSE OutlierColumns(OutlierColumn(st, cols[k], method), cols, k + 1, method)

\* line 174
ResetIndexNew(st) == New(st, ResetIndex(Deref(st)))

handle_outliers(st, outlier_report, method) ==
    IF ~outlier_report.present THEN st
    ELSE ResetIndexNew(OutlierColumns(DfCopy(st), outlier_report.numeric_columns, 1, method))

\* Series.nunique(): distinct non-missing values
NUnique(col) == Cardinality({col[i] : i \in {j \in 1..Len(col) : ~IsNa(col[j])}})

ConstantColumns(df) == {c \in ColSet(df) : NUnique(df.data[c]) = 1}

DropIfAny(st, cols_to_drop) ==
    IF cols_to_drop # {} THEN New(st, DropColumns(Deref(st), cols_to_drop)) ELSE st

remove_constant_columns(st) == DropIfAny(st, ConstantColumns(Deref(st)))

\* the steps of clean_dataset after the first copy, each on the result of the
\* one before (lines 206-226)
CleanImpute(st, a) == Logged("impute", impute_missing_values(st, a.missing_strategy))

CleanDuplicates(st, a) ==
    Logged("duplicates", handle_duplicates(st, a.duplicate_report, a.duplicate_strategy))

CleanTypes(st, a) ==
    IF a.dtype_report.present THEN Logged("types", fix_data_types(st, a.dtype_report)) ELSE st

CleanText(st, a) ==
    IF a.normalize_text THEN Logged("text", normalize_text_columns(st, FALSE)) ELSE st

CleanOutliers(st, a) ==
    IF a.outlier_report.present
    THEN Logged("outliers", handle_outliers(st, a.outlier_report, a.outlier_method)) ELSE st

CleanConstants(st, a) ==
    IF a.remove_constants THEN Logged("constants", remove_constant_columns(st)) ELSE st

\* line 226
CleanReindex(st) == Logged("reindex", ResetIndexNew(st))

\* a faulty variant, for the sensitivity of the properties: the outliers are handled before the text is normalized
clean_dataset_OutliersFirst(st, a) ==
    CleanReindex(
        CleanConstants(
            CleanText(
                CleanOutliers(
                    CleanTypes(
                        CleanDuplicates(
                            CleanImpute(DfCopy(st), a), a), a), a), a), a))

\* clean_dataset (lines 191-228)
clean_dataset(st, a) ==
    CleanReindex(
        CleanConstants(
            CleanOutliers(
                CleanText(
                    CleanTypes(
                        CleanDuplicates(
                            CleanImpute(DfCopy(st), a), a), a), a), a), a))

(***************************************************************************)
(* The analyzers, as far as the Cleaning Stage reads their reports.        *)
(* A report is a record; present is FALSE for None (or anything that is    *)
(* not a report mapping).                                                  *)
(***************************************************************************)
NoDuplicateReport == [present |-> FALSE, duplicate_count |-> 0, severity |-> "None"]
NoDtypeReport == [present |-> FALSE, possible_date_columns |-> <<>>,
                  float_int_candidates |-> <<>>]
NoOutlierReport == [present |-> FALSE, numeric_columns |-> <<>>]

CountTrue(mask) == Len(SelectSeq(mask, LAMBDA b : b))

\* a faulty variant, for the sensitivity of the properties: the thresholds belong to the lower class
DuplicateSeverity_Inclusive(count, total) ==
    IF total = 0 \/ count = 0 THEN "None"
    ELSE IF count * 100 <= total THEN "Low"
    ELSE IF count * 100 <= 5 * total THEN "Medium"
    ELSE "High"

\* duplicates.py get_severity (lines 39-47) on count / total * 100
DuplicateSeverity(count, total) ==
    IF total = 0 \/ count = 0 THEN "None"
    ELSE IF count * 100 < total THEN "Low"
    ELSE IF count * 100 < 5 * total THEN "Medium"
    ELSE "High"

DuplicateReport(count, total) ==
    [present |-> TRUE, duplicate_count |-> count, severity |-> DuplicateSeverity(count, total)]

analyze_duplicates(df) == DuplicateReport(CountTrue(Duplicated(df)), NRows(df))

\* data_types.py lines 41-43: the matches of the four patterns, added up
DateLikeCount(sample) ==
    SumSeq([p \in 1..Len(date_patterns) |->
        Len(SelectSeq(sample, LAMBDA c : Contains(AsStr(c), date_patterns[p])))])

\* data_types.py lines 32-50 on the non-null values of a text column
SampleIsDates(sample) ==
    /\ 2 * DateLikeCount(sample) > Len(sample)
    /\ \A i \in 1..Len(sample) : ~IsNa(ToDatetime(sample[i]))

\* data_types.py lines 25-50
IsDateCandidate(df, col) ==
    /\ df.dtypes[col] = "object"
    /\ Len(NonNull(df.data[col])) > 0
    /\ SampleIsDates(SubSeq(NonNull(df.data[col]), 1, Min2(Len(NonNull(df.data[col])), 100)))

\* data_types.py lines 52-64
IsFloatIntCandidate(df, col) ==
    /\ df.dtypes[col] = "float64"
    /\ Len(NonNull(df.data[col])) > 0
    /\ AllCells(df.data[col], IsIntegral)

\* data_types.py line 135: float_int_candidates holds the column names
analyze_data_types(df) ==
    [present |-> TRUE,
     possible_date_columns |-> SelectSeq(df.columns, LAMBDA c : IsDateCandidate(df, c)),
     float_int_candidates |-> SelectSeq(df.columns, LAMBDA c : IsFloatIntCandidate(df, c))]

\* the characters of the column names the model uses
NameChars(col) ==
    CASE col = "value" -> <<"v", "a", "l", "u", "e">>
      [] col = "name" -> <<"n", "a", "m", "e">>
      [] col = "amount" -> <<"a", "m", "o", "u", "n", "t">>
      [] col = "code" -> <<"c", "o", "d", "e">>
      [] col = "Id" -> <<"I", "d">>
      [] OTHER -> <<>>

id_patterns ==
    << <<"i", "d">>, <<"k", "e", "y">>, <<"i", "n", "d", "e", "x">>,
       <<"n", "u", "m", "b", "e", "r">>, <<"c", "o", "d", "e">> >>

LowerName(col) == [i \in 1..Len(NameChars(col)) |-> Lower(NameChars(col)[i])]

\* pattern in col.lower(): the pattern is a substring
HasSubstring(s, pat) == \E i \in 1..(Len(s) - Len(pat) + 1) : SubSeq(s, i, i + Len(pat) - 1) = pat

\* outliers.py lines 9-13
OutlierNumericColumns(df) ==
    SelectSeq(df.columns,
              LAMBDA c : /\ df.dtypes[c] \in NumericDtypes
                         /\ ~\E p \in 1..Len(id_patterns) : HasSubstring(LowerName(c), id_patterns[p]))

\* every return of analyze_outliers carries numeric_columns (lines 18, 34, 119)
analyze_outliers(df) == [present |-> TRUE, numeric_columns |-> OutlierNumericColumns(df)]

(***************************************************************************)
(* run_pipeline.py: run_full_pipeline with df_input (lines 83-146).        *)
(***************************************************************************)
\* the arguments of the clean_dataset call of lines 112-119, the others at
\* the defaults of cleaning.py lines 197-201
PipelineCleanArgs(df, duplicate_strategy) ==
    [duplicate_strategy |-> duplicate_strategy,
     missing_strategy |-> "median",
     outlier_method |-> "clip",
     normalize_text |-> TRUE,
     remove_constants |-> FALSE,
     duplicate_report |-> analyze_duplicates(df),
     dtype_report |-> analyze_data_types(df),
     outlier_report |-> analyze_outliers(df)]

\* lines 94-119 on df; df_original is a second copy nothing writes to
AnalyzeAndClean(df, duplicate_strategy) ==
    clean_dataset([DfCopy(df) EXCEPT !.ref = df.ref], PipelineCleanArgs(Deref(df), duplicate_strategy))

\* lines 85-86
run_full_pipeline(st, duplicate_strategy) == AnalyzeAndClean(DfCopy(st), duplicate_strategy)

(***************************************************************************)
(* Inputs                                                                  *)
(***************************************************************************)
DuplicateStrategies == {"keep", "flag", "remove", "auto", "dedupe"}
MissingStrategies == {"median", "mean", "zero", "interpolate"}
OutlierMethods == {"clip", "flag", "remove", "winsorize"}

KnownDuplicateStrategies == {"keep", "flag", "remove", "auto"}
KnownMissingStrategies == {"median", "mean", "zero"}
KnownOutlierMethods == {"clip", "flag", "remove"}

NotAParameter == "<not a parameter>"

\* the rows datasets are built from: a numeric cell and a text cell
RowKinds ==
    << [value |-> Num(Scale \div 2), name |-> Str(<<"a">>)],
       [value |-> Num(Scale \div 2), name |-> Str(<<" ", "a">>)],
       [value |-> Num(9 * Scale), name |-> Str(<<"a">>)],
       [value |-> NaN, name |-> NaN] >>

Frame(rows, value_dtype) ==
    [columns |-> <<"value", "name">>,
     dtypes |-> [c \in {"value", "name"} |-> IF c = "value" THEN value_dtype ELSE "object"],
     index |-> RangeIndex(Len(rows)),
     data |-> [c \in {"value", "name"} |-> [i \in 1..Len(rows) |-> RowKinds[rows[i]][c]]]]

\* every sequence of at most n rows
RowSeqs(n) == UNION {[1..k -> 1..Len(RowKinds)] : k \in 0..n}

\* the sequences in which equal rows are adjacent and kinds ascend
Grouped(rows) == \A i \in 1..(Len(rows) - 1) : rows[i] <= rows[i + 1]

Frames == {Frame(rows, "float64") : rows \in {q \in RowSeqs(MaxRows) : Grouped(q)}}

NoArgs ==
    [duplicate_strategy |-> "", missing_strategy |-> "", outlier_method |-> "",
     normalize_text |-> FALSE, remove_constants |-> FALSE,
     duplicate_report |-> NoDuplicateReport, dtype_report |-> NoDtypeReport,
     outlier_report |-> NoOutlierReport]

\* no analyzer has been called
AnalysisIdle ==
    /\ reference = Frame(<<>>, "float64")
    /\ report = {}

NoRequest == [route |-> "", job_id |-> 0, filename |-> "", size |-> "", rows |-> <<>>]

NoResponse == [status |-> 0, job_id |-> 0, has_report |-> FALSE, count |-> 0, pipeline |-> ""]

\* api.py line 56 and no request yet
ApiIdle ==
    /\ job_storage = <<>>
    /\ uuid_count = 0
    /\ returned_jobs = {}
    /\ request = NoRequest
    /\ response = NoResponse

ScoreIdle ==
    /\ total_rows = 0
    /\ missing_counts = <<>>
    /\ duplicate_count = 0
    /\ total_outliers = 0
    /\ issue_counts = <<>>
    /\ quality = [score |-> 100]

(***************************************************************************)
(* Specification Spec: one call of an entry point of the Cleaning Stage on *)
(* the caller's dataset.                                                   *)
(***************************************************************************)
Init ==
    /\ entry = ""
    /\ df_input \in Frames
    /\ df_caller = df_input
    /\ req = NoArgs
    /\ cfg = NoArgs
    /\ cleaned = df_input
    /\ same_object = TRUE
    /\ trace = <<>>
    /\ legacy_fillna = TRUE
    /\ AnalysisIdle
    /\ ApiIdle
    /\ ScoreIdle

\* the caller's object is heap[1]; out is the [heap, ref] the call returned
Returned(name, supplied, received, out) ==
    /\ entry' = name
    /\ req' = supplied
    /\ cfg' = received
    /\ cleaned' = Deref(out)
    /\ same_object' = (out.ref = 1)
    /\ df_caller' = out.heap[1]
    /\ trace' = out.log
    /\ UNCHANGED <<df_input, legacy_fillna, analysisVars, apiVars, scoreVars>>

CleanDatasetReturns(args) ==
    Returned("clean_dataset", args, args, clean_dataset(Ret(<<df_input>>, 1), args))

\* a direct call of clean_dataset; each report is absent or the one the
\* analyzer gives for the dataset
CallCleanDataset ==
    /\ entry = ""
    /\ \E ds \in DuplicateStrategies, ms \in MissingStrategies, om \in OutlierMethods,
          nt \in BOOLEAN, rc \in BOOLEAN,
          dr \in {NoDuplicateReport, analyze_duplicates(df_input)},
          tr \in {NoDtypeReport, analyze_data_types(df_input)},
          lr \in {NoOutlierReport, analyze_outliers(df_input)} :
        CleanDatasetReturns(
            [duplicate_strategy |-> ds, missing_strategy |-> ms,
             outlier_method |-> om, normalize_text |-> nt,
             remove_constants |-> rc, duplicate_report |-> dr,
             dtype_report |-> tr, outlier_report |-> lr])

PipelineReturns(name, supplied) ==
    Returned(name, supplied, PipelineCleanArgs(df_input, supplied.duplicate_strategy),
             run_full_pipeline(Ret(<<df_input>>, 1), supplied.duplicate_strategy))

\* run_full_pipeline(df_input=..., duplicate_strategy=...)
CallRunFullPipeline ==
    /\ entry = ""
    /\ \E ds \in DuplicateStrategies :
        PipelineReturns("run_full_pipeline",
                        [NoArgs EXCEPT !.duplicate_strategy = ds,
                                       !.missing_strategy = NotAParameter,
                                       !.outlier_method = NotAParameter])

\* POST /clean (api.py lines 124-168) with the uploaded file read as df_input
CallCleanFile ==
    /\ entry = ""
    /\ \E ds \in DuplicateStrategies, ms \in MissingStrategies, om \in OutlierMethods :
        PipelineReturns("clean_file",
                        [NoArgs EXCEPT !.duplicate_strategy = ds,
                                       !.missing_strategy = ms,
                                       !.outlier_method = om])

Next == CallCleanDataset \/ CallRunFullPipeline \/ CallCleanFile

Spec == Init /\ [][Next]_vars

(***************************************************************************)
(* Specification SpecSteps: one direct call of a cleaning step.            *)
(***************************************************************************)
StepFrames ==
    {Frame(rows, dtype) : rows \in RowSeqs(MaxStepRows), dtype \in {"float64", "datetime64[ns]"}}

InitSteps ==
    /\ entry = ""
    /\ df_input \in StepFrames
    /\ df_caller = df_input
    /\ req = NoArgs
    /\ cfg = NoArgs
    /\ cleaned = df_input
    /\ same_object = TRUE
    /\ trace = <<>>
    /\ legacy_fillna \in BOOLEAN
    /\ AnalysisIdle
    /\ ApiIdle
    /\ ScoreIdle

StepReturns(name, args, out) ==
    Returned(name, args, args, Logged(name, out))

CallImputeMissingValues ==
    /\ entry = ""
    /\ \E ms \in MissingStrategies :
        StepReturns("impute_missing_values", [NoArgs EXCEPT !.missing_strategy = ms],
                    impute_missing_values(Ret(<<df_input>>, 1), ms))

CallHandleOutliers ==
    /\ entry = ""
    /\ \E om \in OutlierMethods, lr \in {NoOutlierReport, analyze_outliers(df_input)} :
        StepReturns("handle_outliers",
                    [NoArgs EXCEPT !.outlier_method = om, !.outlier_report = lr],
                    handle_outliers(Ret(<<df_input>>, 1), lr, om))

CallHandleDuplicates ==
    /\ entry = ""
    /\ \E ds \in DuplicateStrategies, dr \in {NoDuplicateReport, analyze_duplicates(df_input)} :
        StepReturns("handle_duplicates",
                    [NoArgs EXCEPT !.duplicate_strategy = ds, !.duplicate_report = dr],
                    handle_duplicates(Ret(<<df_input>>, 1), dr, ds))

CallFixDataTypes ==
    /\ entry = ""
    /\ \E tr \in {NoDtypeReport, analyze_data_types(df_input)} :
        StepReturns("fix_data_types", [NoArgs EXCEPT !.dtype_report = tr],
                    fix_data_types(Ret(<<df_input>>, 1), tr))

NextSteps ==
    \/ CallImputeMissingValues
    \/ CallHandleDuplicates
    \/ CallFixDataTypes
    \/ CallHandleOutliers

SpecSteps == InitSteps /\ [][NextSteps]_vars

(***************************************************************************)
(* The Quality Scorer (run_pipeline.py lines 149-213) on the reports the   *)
(* analyzers write.  Percentages are integers in hundredths of a percent,  *)
(* the unit the analyzers round to.                                        *)
(***************************************************************************)
\* round(100 * num / den, 2) in hundredths: Python rounds to the nearest, a tie
\* to the even neighbour
RoundHalfEven(q, r, den) ==
    IF 2 * r < den THEN q
    ELSE IF 2 * r > den THEN q + 1
    ELSE IF q % 2 = 0 THEN q ELSE q + 1

RoundedPercent(num, den) ==
    RoundHalfEven((num * 10000) \div den, (num * 10000) % den, den)

\* missing_values.py lines 36-47: one entry per column with a missing cell
MissingDetails(counts, rows) ==
    [i \in 1..Len(SelectSeq(counts, LAMBDA c : c > 0)) |->
        [count |-> SelectSeq(counts, LAMBDA c : c > 0)[i],
         percentage |-> RoundedPercent(SelectSeq(counts, LAMBDA c : c > 0)[i], rows)]]

\* duplicates.py lines 8 and 68
DuplicatePercent(count, rows) == IF rows > 0 THEN RoundedPercent(count, rows) ELSE 0

\* lines 155-160
ColumnPenalty(pct) ==
    IF pct > 2000 THEN 10 ELSE IF pct > 500 THEN 5 ELSE IF pct > 0 THEN 2 ELSE 0

\* lines 152-160
MissingPenalty(details) == SumSeq([i \in 1..Len(details) |-> ColumnPenalty(details[i].percentage)])

\* a faulty variant, for the sensitivity of the properties: the two upper tiers exchanged
DuplicateImpact_Swapped(dup_pct) ==
    IF dup_pct > 500 THEN 8 ELSE IF dup_pct > 100 THEN 15 ELSE IF dup_pct > 0 THEN 3 ELSE 0

\* lines 164-170 and 209
DuplicateImpact(dup_pct) ==
    IF dup_pct > 500 THEN 15 ELSE IF dup_pct > 100 THEN 8 ELSE IF dup_pct > 0 THEN 3 ELSE 0

\* lines 172-176 and 210
OutlierImpact(outliers) == IF outliers > 100 THEN 10 ELSE IF outliers > 50 THEN 5 ELSE 0

\* lines 184-189 and 211
InconsistencyImpact(issues) ==
    IF issues > 5 THEN 15 ELSE IF issues > 2 THEN 8 ELSE IF issues > 0 THEN 4 ELSE 0

\* lines 193-202
Grade(score) ==
    IF score >= 90 THEN "Excellent"
    ELSE IF score >= 75 THEN "Good"
    ELSE IF score >= 60 THEN "Fair"
    ELSE IF score >= 40 THEN "Poor"
    ELSE "Critical"

QualityRecord(score, missing, dup, outlier, inconsistency) ==
    [score |-> score,
     grade |-> Grade(score),
     breakdown |-> [missing_data_impact |-> missing,
                    duplicate_impact |-> dup,
                    outlier_impact |-> outlier,
                    inconsistency_impact |-> inconsistency]]

\* a faulty variant, for the sensitivity of the properties: the outlier penalty is added instead of subtracted and the
\* score is not clamped
ScoreFrom_OutlierAdded(missing, dup, outlier, inconsistency) ==
    QualityRecord(100 - Min2(missing, 30) - dup + outlier - inconsistency,
                  Min2(missing, 30), dup, outlier, inconsistency)

\* a faulty variant, for the sensitivity of the properties: the breakdown reports the missing-data penalty without its cap
ScoreFrom_BreakdownUncapped(missing, dup, outlier, inconsistency) ==
    QualityRecord(Max2(100 - Min2(missing, 30) - dup - outlier - inconsistency, 0),
                  missing, dup, outlier, inconsistency)

\* lines 150, 162-191 and 204-213 from the four penalties
ScoreFrom(missing, dup, outlier, inconsistency) ==
    QualityRecord(Max2(100 - Min2(missing, 30) - dup - outlier - inconsistency, 0),
                  Min2(missing, 30), dup, outlier, inconsistency)

\* missing_report.details is a sequence of [count, percentage];
\* inconsistency_report holds the number of keys of its three mappings
calculate_quality_score(missing_report, duplicate_report, outlier_report, inconsistency_report) ==
    ScoreFrom(MissingPenalty(missing_report.details),
              DuplicateImpact(duplicate_report.duplicate_percent),
              OutlierImpact(outlier_report.total_outliers),
              InconsistencyImpact(inconsistency_report.strip_issues
                                  + inconsistency_report.case_issues
                                  + inconsistency_report.special_char_issues))

\* the four reports of a dataset with the given counts, scored (lines 121-126)
ScoreDataset(rows, missing, duplicates, outliers, issues) ==
    calculate_quality_score(
        [details |-> MissingDetails(missing, rows)],
        [duplicate_percent |-> DuplicatePercent(duplicates, rows)],
        [total_outliers |-> outliers],
        [strip_issues |-> issues[1], case_issues |-> issues[2],
         special_char_issues |-> issues[3]])

(***************************************************************************)
(* Specification SpecScore: a dataset is scored, then scored again each    *)
(* time one of its defects has grown.                                      *)
(***************************************************************************)
RowCounts == {100, 40000}

\* a count that is 0, a single cell or row, a tenth or a half of the rows
CountLevels(rows) == {0, 1, rows \div 10, rows \div 2}

\* duplicate rows: none, one, 2% or 10% of the rows
DuplicateLevels(rows) == {0, 1, rows \div 50, rows \div 10}

OutlierLevels(rows) == {k \in {0, 51, 101} : k <= rows}

CleanIdle ==
    /\ entry = ""
    /\ df_input = Frame(<<>>, "float64")
    /\ df_caller = df_input
    /\ req = NoArgs
    /\ cfg = NoArgs
    /\ cleaned = df_input
    /\ same_object = TRUE
    /\ trace = <<>>
    /\ legacy_fillna = TRUE
    /\ AnalysisIdle
    /\ ApiIdle

InitScore ==
    /\ CleanIdle
    /\ total_rows \in RowCounts
    /\ missing_counts = [i \in 1..MaxScoreCols |-> 0]
    /\ duplicate_count = 0
    /\ total_outliers = 0
    /\ issue_counts = <<0, 0, 0>>
    /\ quality = ScoreDataset(total_rows, missing_counts, duplicate_count,
                              total_outliers, issue_counts)

Rescored ==
    /\ UNCHANGED <<total_rows, cleanVars, analysisVars, apiVars>>
    /\ quality' = ScoreDataset(total_rows', missing_counts', duplicate_count',
                               total_outliers', issue_counts')

\* one column has more missing cells; the columns are kept in the order of
\* their missing counts, which the scorer does not look at
MoreMissing ==
    /\ \E col \in 1..MaxScoreCols, c \in CountLevels(total_rows) :
        /\ c > missing_counts[col]
        /\ col > 1 => missing_counts[col - 1] >= c
        /\ missing_counts' = [missing_counts EXCEPT ![col] = c]
    /\ UNCHANGED <<duplicate_count, total_outliers, issue_counts>>
    /\ Rescored

MoreDuplicates ==
    /\ \E c \in DuplicateLevels(total_rows) :
        /\ c > duplicate_count
        /\ duplicate_count' = c
    /\ UNCHANGED <<missing_counts, total_outliers, issue_counts>>
    /\ Rescored

MoreOutliers ==
    /\ \E c \in OutlierLevels(total_rows) :
        /\ c > total_outliers
        /\ total_outliers' = c
    /\ UNCHANGED <<missing_counts, duplicate_count, issue_counts>>
    /\ Rescored

\* one more column has whitespace (1), case (2) or special-character (3) issues
MoreIssues ==
    /\ \E kind \in 1..3 :
        /\ issue_counts[kind] < MaxIssueCols
        /\ issue_counts' = [issue_counts EXCEPT ![kind] = @ + 1]
    /\ UNCHANGED <<missing_counts, duplicate_count, total_outliers>>
    /\ Rescored

NextScore == MoreMissing \/ MoreDuplicates \/ MoreOutliers \/ MoreIssues

SpecScore == InitScore /\ [][NextScore]_vars

(***************************************************************************)
(* The analyzers' reports as they are returned.  A report is the set of    *)
(* its leaves, [path, val]: path is the sequence of keys that leads to the *)
(* leaf, val the value with the Python type that holds it.  Percentages    *)
(* are in hundredths of a percent, other numbers in units.                 *)
(***************************************************************************)
PyValue(type, v, s, nan) == [py |-> type, v |-> v, s |-> s, nan |-> nan]

PyInt(v) == PyValue("int", v, "", FALSE)
PyFloat(v) == PyValue("float", v, "", FALSE)
PyBool(b) == PyValue("bool", IF b THEN 1 ELSE 0, "", FALSE)
PyStr(s) == PyValue("str", 0, s, FALSE)
\* the scalars numpy and pandas reductions return
NpInt64(v) == PyValue("numpy.int64", v, "", FALSE)
NpFloat64(v) == PyValue("numpy.float64", v, "", FALSE)
NpBool(b) == PyValue("numpy.bool_", IF b THEN 1 ELSE 0, "", FALSE)
\* 0 / 0 on a numpy scalar: nan and a warning, no exception
NpNaN == PyValue("numpy.float64", 0, "", TRUE)

Leaf(path, val) == [path |-> path, val |-> val]

\* the report under a key of an enclosing mapping
Under(key, leaves) == {Leaf(<<key>> \o e.path, e.val) : e \in leaves}

\* the value at a path (the report has it)
At(leaves, path) == (CHOOSE e \in leaves : e.path = path).val

Has(leaves, path) == \E e \in leaves : e.path = path

(***************************************************************************)
(* missing_values.py                                                       *)
(***************************************************************************)
\* get_severity (lines 10-18) on count / rows * 100
MissingSeverity(count, rows) ==
    IF count = 0 THEN "None"
    ELSE IF count * 100 < 5 * rows THEN "Low"
    ELSE IF count * 100 < 20 * rows THEN "Medium"
    ELSE "High"

ColumnsWithMissing(df) == {c \in ColSet(df) : MissingIn(df.data[c]) > 0}

RowsWithAnyMissing(df) ==
    {i \in 1..NRows(df) : \E c \in ColSet(df) : IsNa(df.data[c][i])}

RowsWithAllMissing(df, cols) ==
    {i \in 1..NRows(df) : \A c \in ColSet(df) : IsNa(df.data[c][i]) <=> c \in cols}

TotalMissing(df) ==
    SumSeq([k \in 1..Len(df.columns) |-> MissingIn(df.data[df.columns[k]])])

\* lines 36-47
MissingDetailLeaves(df, col, count) ==
    {Leaf(<<"details", col, "count">>, PyInt(count)),
     Leaf(<<"details", col, "percentage">>, PyFloat(RoundedPercent(count, NRows(df)))),
     Leaf(<<"details", col, "severity">>, PyStr(MissingSeverity(count, NRows(df))))}

\* lines 49-51: a numpy integer divided by the number of cells
OverallMissingPercentage(total_missing_cells, total_cells) ==
    IF total_cells = 0 THEN NpNaN
    ELSE NpFloat64(RoundedPercent(total_missing_cells, total_cells))

\* lines 55-69 for the pattern in which every column of cols is missing; with
\* at most two columns no other pattern has more than one missing column
MissingPatternLeaves(df, cols, occurrences) ==
    IF Cardinality(cols) > 1 /\ occurrences > 1
    THEN {Leaf(<<"missing_patterns", "0", "occurrences">>, PyInt(occurrences)),
          Leaf(<<"missing_patterns", "0", "percentage">>,
               PyFloat(RoundedPercent(occurrences, NRows(df))))}
         \cup {Leaf(<<"missing_patterns", "0", "columns", ToString(k - 1)>>, PyStr(df.columns[k])) :
                  k \in {j \in 1..Len(df.columns) : df.columns[j] \in cols}}
    ELSE {}

\* a faulty variant, for the sensitivity of the properties: the complete rows are the rows less the missing cells
MissingSummaryLeaves_CellsForRows(df) ==
    {Leaf(<<"summary", "total_missing_values">>, PyInt(TotalMissing(df))),
     Leaf(<<"summary", "overall_missing_percentage">>,
          OverallMissingPercentage(TotalMissing(df), NRows(df) * Len(df.columns))),
     Leaf(<<"summary", "columns_with_missing">>, PyInt(Cardinality(ColumnsWithMissing(df)))),
     Leaf(<<"summary", "total_columns">>, PyInt(Len(df.columns))),
     Leaf(<<"summary", "rows_with_any_missing">>, PyInt(Cardinality(RowsWithAnyMissing(df)))),
     Leaf(<<"summary", "complete_rows">>, PyInt(NRows(df) - TotalMissing(df)))}

\* lines 71-78
MissingSummaryLeaves(df) ==
    {Leaf(<<"summary", "total_missing_values">>, PyInt(TotalMissing(df))),
     Leaf(<<"summary", "overall_missing_percentage">>,
          OverallMissingPercentage(TotalMissing(df), NRows(df) * Len(df.columns))),
     Leaf(<<"summary", "columns_with_missing">>, PyInt(Cardinality(ColumnsWithMissing(df)))),
     Leaf(<<"summary", "total_columns">>, PyInt(Len(df.columns))),
     Leaf(<<"summary", "rows_with_any_missing">>, PyInt(Cardinality(RowsWithAnyMissing(df)))),
     Leaf(<<"summary", "complete_rows">>,
          PyInt(NRows(df) - Cardinality(RowsWithAnyMissing(df))))}

analyze_missing_values(df) ==
    MissingSummaryLeaves(df)
    \cup UNION {MissingDetailLeaves(df, c, MissingIn(df.data[c])) : c \in ColumnsWithMissing(df)}
    \cup MissingPatternLeaves(df, ColumnsWithMissing(df),
                              Cardinality(RowsWithAllMissing(df, ColumnsWithMissing(df))))

\* a list of strings, one leaf per position
ListLeaves(path, names) ==
    {Leaf(path \o <<ToString(k - 1)>>, PyStr(names[k])) : k \in 1..Len(names)}

(***************************************************************************)
(* duplicates.py                                                           *)
(***************************************************************************)
\* df.duplicated(keep=False): a row equal to some other row
DuplicatedKeepFalse(rows) ==
    [i \in 1..Len(rows) |-> \E j \in 1..Len(rows) : j # i /\ rows[j] = rows[i]]

\* the first row of the group a row belongs to
GroupOf(rows) ==
    [i \in 1..Len(rows) |-> CHOOSE j \in 1..i : rows[j] = rows[i] /\ \A k \in 1..(j - 1) : rows[k] # rows[i]]

\* a faulty variant, for the sensitivity of the properties: the group column is written into the frame given
DupGroupFrame_InPlace(st, mask) == st

\* line 27: df[df.duplicated(keep=False)].copy()
DupGroupFrame(st, mask) == DfCopy(New(st, KeepRows(Deref(st), mask)))

\* line 28: dup_df['_dup_group'] = ..., one number per group of equal rows
SetDupGroup(st) ==
    Store(st, SetColumn(Deref(st), "_dup_group", "int64",
                        [i \in 1..NRows(Deref(st)) |-> Num(GroupOf(RowsOf(Deref(st)))[i] * Scale)]))

\* lines 25-28: the frames analyze_duplicates creates and writes
DuplicateFrames(st, count) ==
    IF count > 0 /\ count < 1000
    THEN SetDupGroup(DupGroupFrame(st, DuplicatedKeepFalse(RowsOf(Deref(st)))))
    ELSE st

\* line 8 and line 68: round() of a numpy float, or of the int 0 without rows
DuplicatePercentValue(count, rows) ==
    IF rows > 0 THEN NpFloat64(RoundedPercent(count, rows)) ELSE PyInt(0)

\* lines 13-14
ImportantColumns(df) ==
    SelectSeq(df.columns,
              LAMBDA c : /\ ~HasSubstring(LowerName(c), <<"i", "d">>)
                         /\ ~HasSubstring(LowerName(c), <<"i", "n", "d", "e", "x">>))

\* the rows on the columns of subset
SubsetRows(df, subset) ==
    [i \in 1..NRows(df) |-> [c \in {subset[k] : k \in 1..Len(subset)} |-> df.data[c][i]]]

\* line 17: df.duplicated(subset=important_cols, keep=False).sum()
SubsetDupCount(df, important_cols) ==
    CountTrue(DuplicatedKeepFalse(SubsetRows(df, important_cols)))

\* lines 16-23
SubsetDuplicateLeaves(important_cols, count, subset_dup_count) ==
    IF Len(important_cols) > 0 /\ subset_dup_count > count
    THEN ListLeaves(<<"subset_duplicates", "columns_checked">>, important_cols)
         \cup {Leaf(<<"subset_duplicates", "duplicate_count">>, PyInt(subset_dup_count)),
               Leaf(<<"subset_duplicates", "note">>,
                    PyStr("More duplicates found when ignoring ID columns"))}
    ELSE {}

\* lines 51-64
DuplicateSuggestions(count, rows, subset_found) ==
    (IF count = 0 THEN <<"No duplicate rows detected. Dataset is clean.">>
     ELSE IF 100 * count < rows
          THEN <<"Very few duplicates. Safe to remove using drop_duplicates()">>
     ELSE IF 100 * count < 5 * rows
          THEN <<"Moderate duplicates found. Review if data represents transactions or events.">>
     ELSE <<"High duplicate rate detected. Investigate data collection process.",
            "Check if duplicates are legitimate (e.g., repeated measurements) or errors.">>)
    \o (IF subset_found
        THEN <<"Found more duplicates when ignoring ID columns. Consider subset-based deduplication.">>
        ELSE <<>>)

DuplicateFindings(count, rows, subset_leaves) ==
    subset_leaves \cup ListLeaves(<<"suggestions">>, DuplicateSuggestions(count, rows, subset_leaves # {}))

\* lines 66-75; line 70 subtracts a numpy integer from an int
DuplicateLeaves(df, count) ==
    {Leaf(<<"duplicate_count">>, PyInt(count)),
     Leaf(<<"duplicate_percent">>, DuplicatePercentValue(count, NRows(df))),
     Leaf(<<"total_rows">>, PyInt(NRows(df))),
     Leaf(<<"unique_rows">>, NpInt64(NRows(df) - count)),
     Leaf(<<"severity">>, PyStr(DuplicateSeverity(count, NRows(df))))}
    \cup DuplicateFindings(count, NRows(df),
             SubsetDuplicateLeaves(ImportantColumns(df), count,
                                   SubsetDupCount(df, ImportantColumns(df))))

(***************************************************************************)
(* data_types.py                                                           *)
(***************************************************************************)
\* lines 59-63: has_nulls is Series.isna().any(), a numpy boolean
FloatIntDetailLeaves(df, candidates) ==
    UNION {{Leaf(<<"float_int_details", ToString(k - 1), "column">>, PyStr(candidates[k])),
            Leaf(<<"float_int_details", ToString(k - 1), "has_nulls">>,
                 NpBool(MissingIn(df.data[candidates[k]]) > 0))} : k \in 1..Len(candidates)}

\* lines 131-140
DataTypeLeaves(df, dtype_report) ==
    {Leaf(<<"raw_types", c>>, PyStr(df.dtypes[c])) : c \in ColSet(df)}
    \cup ListLeaves(<<"possible_date_columns">>, dtype_report.possible_date_columns)
    \cup ListLeaves(<<"float_int_candidates">>, dtype_report.float_int_candidates)
    \cup FloatIntDetailLeaves(df, dtype_report.float_int_candidates)

(***************************************************************************)
(* profiling.py                                                            *)
(***************************************************************************)
\* lines 18-29: null_count / total_rows on numpy scalars, then float()
NullPercentage(null_count, rows) ==
    IF rows = 0 THEN PyValue("float", 0, "", TRUE)
    ELSE PyFloat(RoundedPercent(null_count, rows))

ColumnProfileLeaves(df, col) ==
    {Leaf(<<"column_profiles", col, "type">>, PyStr(df.dtypes[col])),
     Leaf(<<"column_profiles", col, "null_count">>, PyInt(MissingIn(df.data[col]))),
     Leaf(<<"column_profiles", col, "null_percentage">>,
          NullPercentage(MissingIn(df.data[col]), NRows(df)))}

\* lines 78-92
profile_dataset(df) ==
    {Leaf(<<"summary", "shape", "rows">>, PyInt(NRows(df))),
     Leaf(<<"summary", "shape", "columns">>, PyInt(Len(df.columns))),
     Leaf(<<"summary", "column_types", "numeric">>,
          PyInt(Len(SelectSeq(df.columns, LAMBDA c : df.dtypes[c] \in NumericDtypes)))),
     Leaf(<<"summary", "duplicate_rows">>, PyInt(CountTrue(Duplicated(df))))}
    \cup UNION {ColumnProfileLeaves(df, c) : c \in ColSet(df)}

(***************************************************************************)
(* inconsistencies.py                                                      *)
(***************************************************************************)
CategoricalColumns(df) == SelectSeq(df.columns, LAMBDA c : df.dtypes[c] = "object")

\* lines 35-36: the values that change under str.strip()
StripCount(col_series) == Len(SelectSeq(col_series, LAMBDA c : Strip(AsStr(c)) # AsStr(c)))

\* lines 37-42: the percentage is round() of a numpy float
StripIssueLeaves(col, strip_count, values) ==
    IF values > 0 /\ strip_count > 0
    THEN {Leaf(<<"strip_issues", col, "count">>, PyInt(strip_count)),
          Leaf(<<"strip_issues", col, "percentage">>,
               NpFloat64(RoundedPercent(strip_count, values)))}
    ELSE {}

\* line 30: the non-missing values as strings
ColSeries(col) == [i \in 1..Len(NonNull(col)) |-> AsStr(NonNull(col)[i])]

\* Series.nunique() / value_counts() of strings
Distinct(series) == {series[i] : i \in 1..Len(series)}

LowerStr(s) == [i \in 1..Len(s) |-> Lower(s[i])]

\* lines 44-52
CaseIssueLeaves(col, unique_original, unique_lower) ==
    IF unique_lower < unique_original
    THEN {Leaf(<<"case_issues", col, "unique_original">>, PyInt(unique_original)),
          Leaf(<<"case_issues", col, "unique_normalized">>, PyInt(unique_lower)),
          Leaf(<<"case_issues", col, "potential_duplicates">>,
               PyInt(unique_original - unique_lower))}
    ELSE {}

\* lines 27, 54-55: the values with a character that is no letter, digit or whitespace
SpecialCount(series) ==
    Cardinality({i \in 1..Len(series) :
        \E j \in 1..Len(series[i]) : ~IsAlnum(series[i][j]) /\ ~IsSpace(series[i][j])})

\* lines 57-62
SpecialCharLeaves(col, special_count, values) ==
    IF special_count > 0
    THEN {Leaf(<<"special_char_issues", col, "count">>, PyInt(special_count)),
          Leaf(<<"special_char_issues", col, "percentage">>,
               NpFloat64(RoundedPercent(special_count, values)))}
    ELSE {}

IsLetter(ch) ==
    \/ (CharCode(ch) >= 65 /\ CharCode(ch) <= 90)
    \/ (CharCode(ch) >= 97 /\ CharCode(ch) <= 122)

\* lines 64-66
MixedCount(series) ==
    Cardinality({i \in 1..Len(series) :
        /\ \E j \in 1..Len(series[i]) : IsLetter(series[i][j])
        /\ \E j \in 1..Len(series[i]) : IsDigit(series[i][j])})

\* lines 68-72: fewer than 0.9 of the values
MixedAlnumLeaves(col, mixed_count, values) ==
    IF mixed_count > 0 /\ 10 * mixed_count < 9 * values
    THEN {Leaf(<<"mixed_alphanumeric", col, "count">>, PyInt(mixed_count)),
          Leaf(<<"mixed_alphanumeric", col, "percentage">>,
               NpFloat64(RoundedPercent(mixed_count, values)))}
    ELSE {}

\* lines 74-75: the values that occur fewer than 5 times
RareValues(series) ==
    {v \in Distinct(series) : Cardinality({i \in 1..Len(series) : series[i] = v}) < 5}

\* lines 77-83: fewer than half of the distinct values
RareCategoryLeaves(col, rare, total_unique) ==
    IF rare > 0 /\ 2 * rare < total_unique
    THEN {Leaf(<<"rare_categories", col, "rare_count">>, PyInt(rare)),
          Leaf(<<"rare_categories", col, "total_unique">>, PyInt(total_unique)),
          Leaf(<<"rare_categories", col, "percentage_rare">>,
               PyFloat(RoundedPercent(rare, total_unique)))}
    ELSE {}

\* line 85: col_series.str.len(), its sum and the sum of its squares
Lengths(series) == [k \in 1..Len(series) |-> Len(series[k])]

LengthSum(series) == SumSeq(Lengths(series))

LengthSquares(series) == SumSeq([k \in 1..Len(series) |-> Len(series[k]) * Len(series[k])])

\* lines 86-88: lengths.std() > lengths.mean() * 0.5, std the sample standard
\* deviation (NaN for one value), compared by the squares
LengthsVary(n, sum, squares) ==
    n > 1 /\ 4 * n * (n * squares - sum * sum) > (n - 1) * sum * sum

\* lines 88-94 (mean_length and std_length are left out)
FormatLeaves(col, series, total_unique) ==
    IF total_unique > 10 /\ LengthsVary(Len(series), LengthSum(series), LengthSquares(series))
    THEN {Leaf(<<"inconsistent_formats", col, "min_length">>,
               PyInt(CHOOSE m \in Distinct(Lengths(series)) :
                         \A x \in Distinct(Lengths(series)) : m <= x)),
          Leaf(<<"inconsistent_formats", col, "max_length">>,
               PyInt(CHOOSE m \in Distinct(Lengths(series)) :
                         \A x \in Distinct(Lengths(series)) : m >= x))}
    ELSE {}

\* one iteration of the loop of lines 29-94
ColumnIssueLeaves(col, cells, series) ==
    IF Len(series) = 0 THEN {}
    ELSE StripIssueLeaves(col, StripCount(cells), Len(series))
         \cup CaseIssueLeaves(col, Cardinality(Distinct(series)),
                              Cardinality({LowerStr(v) : v \in Distinct(series)}))
         \cup SpecialCharLeaves(col, SpecialCount(series), Len(series))
         \cup MixedAlnumLeaves(col, MixedCount(series), Len(series))
         \cup RareCategoryLeaves(col, Cardinality(RareValues(series)),
                                 Cardinality(Distinct(series)))
         \cup FormatLeaves(col, series, Cardinality(Distinct(series)))

\* len() of one of the dictionaries the loop filled
IssueColumns(leaves, section) == {l.path[2] : l \in {x \in leaves : x.path[1] = section}}

\* lines 122-128
TotalIssues(leaves) ==
    Cardinality(IssueColumns(leaves, "strip_issues"))
    + Cardinality(IssueColumns(leaves, "case_issues"))
    + Cardinality(IssueColumns(leaves, "special_char_issues"))
    + Cardinality(IssueColumns(leaves, "mixed_alphanumeric"))
    + Cardinality(IssueColumns(leaves, "rare_categories"))

\* lines 130-137
InconsistencySeverity(total_issues) ==
    IF total_issues = 0 THEN "None"
    ELSE IF total_issues <= 2 THEN "Low"
    ELSE IF total_issues <= 5 THEN "Medium"
    ELSE "High"

\* lines 139-144
InconsistencySummaryLeaves(df, total_issues) ==
    {Leaf(<<"summary", "total_categorical_columns">>, PyInt(Len(CategoricalColumns(df)))),
     Leaf(<<"summary", "columns_with_issues">>, PyInt(total_issues)),
     Leaf(<<"summary", "severity">>, PyStr(InconsistencySeverity(total_issues)))}

InconsistencyReport(df, leaves) == InconsistencySummaryLeaves(df, TotalIssues(leaves)) \cup leaves

\* lines 7-18 and 20-152
analyze_inconsistencies(df) ==
    IF Len(CategoricalColumns(df)) = 0
    THEN {Leaf(<<"summary">>, PyStr("No categorical columns found"))}
    ELSE InconsistencyReport(df,
             UNION {ColumnIssueLeaves(c, NonNull(df.data[c]), ColSeries(df.data[c]))
                    : c \in {CategoricalColumns(df)[k] : k \in 1..Len(CategoricalColumns(df))}})

(***************************************************************************)
(* outliers.py                                                             *)
(***************************************************************************)
CompleteRows(df, cols) ==
    {i \in 1..NRows(df) : \A k \in 1..Len(cols) : ~IsNa(df.data[cols[k]][i])}

\* the sum of s[lo..hi], by halves
RECURSIVE SumRange(_, _, _)
SumRange(s, lo, hi) ==
    IF lo > hi THEN 0
    ELSE IF lo = hi THEN s[lo]
    ELSE SumRange(s, lo, (lo + hi) \div 2) + SumRange(s, (lo + hi) \div 2 + 1, hi)

\* the k-th smallest element of v
KthSmallest(v, k) ==
    CHOOSE x \in {v[i] : i \in 1..Len(v)} :
        /\ Cardinality({i \in 1..Len(v) : v[i] < x}) < k
        /\ k <= Cardinality({i \in 1..Len(v) : v[i] <= x})

\* lines 66-67: col_data.quantile(q / 4), linear interpolation
QuantileOf(v, q) ==
    Interpolate(<<KthSmallest(v, ((Len(v) - 1) * q) \div 4 + 1),
                  KthSmallest(v, Min2(((Len(v) - 1) * q) \div 4 + 2, Len(v)))>>,
                1, ((Len(v) - 1) * q) % 4)

\* line 73: the values outside [lower_bound, upper_bound]
IqrOutliers(v, b) == Cardinality({i \in 1..Len(v) : v[i] < b.lower \/ v[i] > b.upper})

\* the numbers in halves (the numbers of the datasets are multiples of one half)
Halves(v) == [i \in 1..Len(v) |-> v[i] \div (Scale \div 2)]

\* lines 63-64: |x - mean| / std > 3 with the population standard deviation,
\* compared by the squares, (n x - sum)^2 > 9 (n squares - sum^2); a constant
\* column has z-scores NaN and no outlier
ZOutliers(h, sum, squares) ==
    Cardinality({i \in 1..Len(h) :
        (Len(h) * h[i] - sum) * (Len(h) * h[i] - sum) > 9 * (Len(h) * squares - sum * sum)})

ZScoreOutliers(h) ==
    ZOutliers(h, SumRange(h, 1, Len(h)), SumRange([i \in 1..Len(h) |-> h[i] * h[i]], 1, Len(h)))

\* lines 57-76 on the non-missing numbers of a column
ColumnOutlierCount(v) ==
    IF Len(v) < 4 THEN 0
    ELSE Max2(ZScoreOutliers(Halves(v)), IqrOutliers(v, IqrBounds(QuantileOf(v, 1), QuantileOf(v, 3))))

\* lines 55-92
OutliersPerColumnLeaves(df, numeric_cols) ==
    {Leaf(<<"outliers_per_column", numeric_cols[k]>>,
          PyInt(ColumnOutlierCount(NumsOf(NonNull(df.data[numeric_cols[k]])))))
        : k \in 1..Len(numeric_cols)}

\* lines 15-38: the two early returns; with ten complete rows or more the
\* per-column counts of lines 51-92 (the total of the isolation forest, the
\* percentage and the severity computed from it, the details and the
\* suggestions are left out)
OutlierLeaves(df, numeric_cols) ==
    ListLeaves(<<"numeric_columns">>, numeric_cols)
    \cup IF Len(numeric_cols) = 0
         THEN {Leaf(<<"error">>, PyStr("No suitable numeric columns for outlier detection")),
               Leaf(<<"total_outliers">>, PyInt(0))}
         ELSE IF Cardinality(CompleteRows(df, numeric_cols)) < 10
         THEN {Leaf(<<"error">>, PyStr("Insufficient data for outlier detection")),
               Leaf(<<"total_outliers">>, PyInt(0))}
         ELSE OutliersPerColumnLeaves(df, numeric_cols)

(***************************************************************************)
(* correlations.py                                                         *)
(***************************************************************************)
\* line 10
id_like_patterns ==
    << <<"i", "d">>, <<"k", "e", "y">>, <<"i", "n", "d", "e", "x">>,
       <<"n", "u", "m", "b", "e", "r">> >>

\* lines 8-12
CorrelationNumericColumns(df) ==
    SelectSeq(df.columns,
              LAMBDA c : /\ df.dtypes[c] \in NumericDtypes
                         /\ ~\E p \in 1..Len(id_like_patterns) :
                               HasSubstring(LowerName(c), id_like_patterns[p]))

\* the whole numbers of column c in the rows where c and d both have a value
\* (DataFrame.corr() takes the pairwise complete rows)
PairedValues(df, c, d) ==
    [k \in 1..Len(SelectSeq(RangeIndex(NRows(df)),
                           LAMBDA i : ~IsNa(df.data[c][i + 1]) /\ ~IsNa(df.data[d][i + 1]))) |->
        df.data[c][SelectSeq(RangeIndex(NRows(df)),
                             LAMBDA i : ~IsNa(df.data[c][i + 1]) /\ ~IsNa(df.data[d][i + 1]))[k] + 1].n
            \div Scale]

\* n times the sum of the products less the product of the sums
CoMoment(xs, ys) ==
    Len(xs) * SumSeq([k \in 1..Len(xs) |-> xs[k] * ys[k]]) - SumSeq(xs) * SumSeq(ys)

PyNaN == PyValue("float", 0, "", TRUE)

\* line 22: the Pearson coefficient in thousandths, for columns that are
\* constant, uncorrelated or linearly dependent (the rounding error of the
\* floating-point computation is left out)
Pearson(cov, var_x, var_y) ==
    CASE var_x = 0 \/ var_y = 0 -> PyNaN
      [] var_x # 0 /\ var_y # 0 /\ cov = 0 -> PyFloat(0)
      [] var_x # 0 /\ var_y # 0 /\ cov * cov = var_x * var_y /\ cov > 0 -> PyFloat(1000)
      [] var_x # 0 /\ var_y # 0 /\ cov * cov = var_x * var_y /\ cov < 0 -> PyFloat(0 - 1000)

Correlation(xs, ys) == Pearson(CoMoment(xs, ys), CoMoment(xs, xs), CoMoment(ys, ys))

\* lines 24-26
CorrelationMatrixLeaves(df, numeric_cols) ==
    {Leaf(<<"numeric_correlations", numeric_cols[i], numeric_cols[j]>>,
          Correlation(PairedValues(df, numeric_cols[i], numeric_cols[j]),
                      PairedValues(df, numeric_cols[j], numeric_cols[i])))
        : i \in 1..Len(numeric_cols), j \in 1..Len(numeric_cols)}

\* lines 28-38: the pairs with a coefficient above 0.7 in absolute value, in
\* the order of the loop
HighPairs(numeric_cols, matrix) ==
    LET n == Len(numeric_cols)
        pair(k) == <<numeric_cols[((k - 1) \div n) + 1], numeric_cols[((k - 1) % n) + 1]>>
    IN SelectSeq([k \in 1..(n * n) |-> pair(k)],
                 LAMBDA p : /\ \E i \in 1..n : \E j \in (i + 1)..n :
                                  p = <<numeric_cols[i], numeric_cols[j]>>
                            /\ ~At(matrix, <<"numeric_correlations", p[1], p[2]>>).nan
                            /\ Abs(At(matrix, <<"numeric_correlations", p[1], p[2]>>).v) > 700)

HighCorrelationLeaves(pairs, matrix) ==
    UNION {{Leaf(<<"high_correlations", ToString(k - 1), "column1">>, PyStr(pairs[k][1])),
            Leaf(<<"high_correlations", ToString(k - 1), "column2">>, PyStr(pairs[k][2])),
            Leaf(<<"high_correlations", ToString(k - 1), "correlation">>,
                 PyFloat(At(matrix, <<"numeric_correlations", pairs[k][1], pairs[k][2]>>).v)),
            Leaf(<<"high_correlations", ToString(k - 1), "strength">>,
                 PyStr(IF At(matrix, <<"numeric_correlations", pairs[k][1], pairs[k][2]>>).v > 700
                       THEN "strong positive" ELSE "strong negative"))}
           : k \in 1..Len(pairs)}

\* lines 66-77: one warning for the high pairs, one for the pairs above 0.9
CorrelationWarningLeaves(pairs, matrix) ==
    IF Len(pairs) = 0 THEN {}
    ELSE {Leaf(<<"warnings", "0">>, PyStr("Found pairs of highly correlated features. Consider feature selection."))}
         \cup IF \E k \in 1..Len(pairs) :
                    Abs(At(matrix, <<"numeric_correlations", pairs[k][1], pairs[k][2]>>).v) > 900
              THEN {Leaf(<<"warnings", "1">>, PyStr("Potential multicollinearity detected."))}
              ELSE {}

CorrelationLeaves(numeric_cols, matrix, pairs) ==
    matrix \cup HighCorrelationLeaves(pairs, matrix) \cup CorrelationWarningLeaves(pairs, matrix)

CorrelationReport(numeric_cols, matrix) ==
    CorrelationLeaves(numeric_cols, matrix, HighPairs(numeric_cols, matrix))

\* lines 14-20: fewer than two numeric columns; lines 22-84 otherwise (the
\* categorical associations of lines 40-64 are left out)
analyze_correlations(df) ==
    IF Len(CorrelationNumericColumns(df)) < 2
    THEN {Leaf(<<"warnings", "0">>, PyStr("Not enough numeric columns for correlation analysis"))}
    ELSE CorrelationReport(CorrelationNumericColumns(df),
                           CorrelationMatrixLeaves(df, CorrelationNumericColumns(df)))

(***************************************************************************)
(* drift.py                                                                *)
(***************************************************************************)
\* lines 8-14: the numeric columns the two datasets share
DriftNumericColumns(df_old, df_new) ==
    SelectSeq(OutlierNumericColumns(df_old),
              LAMBDA c : c \in ColSet(df_new) /\ df_new.dtypes[c] \in NumericDtypes)

RECURSIVE SortedPoints(_)
SortedPoints(points) ==
    IF points = {} THEN <<>>
    ELSE <<CHOOSE x \in points : \A y \in points : x <= y>>
         \o SortedPoints(points \ {CHOOSE x \in points : \A y \in points : x <= y})

\* the values of both samples, ascending
AllValues(old, new) ==
    SortedPoints({old[i] : i \in 1..Len(old)} \cup {new[i] : i \in 1..Len(new)})

CountUpTo(v, x) == Cardinality({i \in 1..Len(v) : v[i] <= x})


\* the distance of the two empirical distribution functions at x, times
\* Len(old) * Len(new)
CdfGap(old, new, x) == Abs(CountUpTo(old, x) * Len(new) - CountUpTo(new, x) * Len(old))

\* scipy.stats.wasserstein_distance (line 62), times Len(old) * Len(new):
\* the area between the two distribution functions
WassersteinSum(old, new, points) ==
    SumSeq([k \in 1..(Len(points) - 1) |->
               CdfGap(old, new, points[k]) * (points[k + 1] - points[k])])

RECURSIVE MaxOf(_)
MaxOf(s) == IF Len(s) = 1 THEN s[1] ELSE Max2(Head(s), MaxOf(Tail(s)))

RECURSIVE MinOf(_)
MinOf(s) == IF Len(s) = 1 THEN s[1] ELSE Min2(Head(s), MinOf(Tail(s)))

\* the statistic of scipy.stats.ks_2samp (line 64), times Len(old) * Len(new):
\* the largest distance of the two distribution functions
KsSum(old, new, points) ==
    MaxOf([k \in 1..Len(points) |-> CdfGap(old, new, points[k])])

\* a faulty variant, for the sensitivity of the properties: the comparison of the p-value is reversed
DistributionChanged_Reversed(ks_sum, pairs) ==
    CASE ks_sum = 0 -> TRUE
      [] ks_sum = pairs -> FALSE

\* line 90, ks_pvalue < 0.05: the p-value is 1 when the statistic is 0, and at
\* most 2 / C(20, 10) when it is 1 with ten values or more on each side
DistributionChanged(ks_sum, pairs) ==
    CASE ks_sum = 0 -> FALSE
      [] ks_sum = pairs -> TRUE

\* classify_severity (lines 26-34) on w_sum / (pairs * range), 0 when range = 0
DriftSeverity(w_sum, pairs, range) ==
    IF range = 0 \/ w_sum * 10 < pairs * range THEN "None"
    ELSE IF w_sum * 10 < 3 * pairs * range THEN "Low"
    ELSE IF w_sum * 10 < 7 * pairs * range THEN "Medium"
    ELSE "High"

\* line 66, in thousandths
NormalizedDrift(w_sum, pairs, range) ==
    IF range > 0 THEN ((w_sum \div pairs) * 1000) \div range ELSE 0

\* lines 68-93 for one column; old and new hold ten values or more
DriftDetailLeaves(col, old, new, w_sum, ks_sum, range) ==
    {Leaf(<<"drift_details", col, "wasserstein_distance">>,
          PyFloat(w_sum \div (Len(old) * Len(new)))),
     Leaf(<<"drift_details", col, "normalized_drift">>,
          PyFloat(NormalizedDrift(w_sum, Len(old) * Len(new), range))),
     Leaf(<<"drift_details", col, "ks_statistic">>,
          PyFloat((ks_sum * 1000) \div (Len(old) * Len(new)))),
     Leaf(<<"drift_details", col, "distribution_changed">>,
          NpBool(DistributionChanged(ks_sum, Len(old) * Len(new)))),
     Leaf(<<"drift_details", col, "severity">>,
          PyStr(DriftSeverity(w_sum, Len(old) * Len(new), range)))}

\* lines 36-41 and 56-66
DriftColumnLeaves(col, old, new, points) ==
    IF Len(old) < 10 \/ Len(new) < 10 THEN {}
    ELSE DriftDetailLeaves(col, old, new, WassersteinSum(old, new, points),
                           KsSum(old, new, points), MaxOf(old) - MinOf(old))

DriftColumn(df_old, df_new, col) ==
    DriftColumnLeaves(col, NumsOf(NonNull(df_old.data[col])), NumsOf(NonNull(df_new.data[col])),
                      AllValues(NumsOf(NonNull(df_old.data[col])), NumsOf(NonNull(df_new.data[col]))))

HighDriftColumns(details) ==
    {e.path[2] : e \in {d \in details : d.path[3] = "severity" /\ d.val.s = "High"}}

\* lines 154-160: ten times the number of high columns against three times
\* the number of columns
OverallSeverity(high, columns) ==
    IF high * 10 > columns * 3 THEN "High"
    ELSE IF high > 0 THEN "Medium"
    ELSE "Low"

DriftReportLeaves(numeric_cols, details) ==
    ListLeaves(<<"columns_checked">>, numeric_cols)
    \cup details
    \cup {Leaf(<<"overall_severity">>,
               PyStr(OverallSeverity(Cardinality(HighDriftColumns(details)), Len(numeric_cols))))}

analyze_drift(df_old, df_new) ==
    IF Len(DriftNumericColumns(df_old, df_new)) = 0
    THEN {Leaf(<<"error">>, PyStr("No common numeric columns for drift analysis"))}
    ELSE DriftReportLeaves(DriftNumericColumns(df_old, df_new),
                           UNION {DriftColumn(df_old, df_new, DriftNumericColumns(df_old, df_new)[k])
                                  : k \in 1..Len(DriftNumericColumns(df_old, df_new))})

(***************************************************************************)
(* run_pipeline.py lines 96-145: the combined report.  df is the copy of   *)
(* line 86; reference_df is absent (None) or a dataset.                    *)
(***************************************************************************)
PyNone == PyValue("NoneType", 0, "", FALSE)

NoReference ==
    [columns |-> <<"<None>">>, dtypes |-> [c \in {"<None>"} |-> "NoneType"],
     index |-> <<>>, data |-> [c \in {"<None>"} |-> <<>>]]

\* lines 104-110
PipelineDriftLeaves(reference_df, df) ==
    IF reference_df = NoReference THEN {Leaf(<<"drift">>, PyNone)}
    ELSE Under("drift", analyze_drift(reference_df, df))

\* lines 137-142
PipelineSummaryLeaves(df, cleaned_df) ==
    {Leaf(<<"summary", "rows_original">>, PyInt(NRows(df))),
     Leaf(<<"summary", "rows_cleaned">>, PyInt(NRows(cleaned_df))),
     Leaf(<<"summary", "columns">>, PyInt(Len(df.columns)))}

\* lines 128-143
FinalReport(df, reference_df, cleaned_df) ==
    Under("profiling", profile_dataset(df))
    \cup Under("missing_values", analyze_missing_values(df))
    \cup Under("duplicates", DuplicateLeaves(df, CountTrue(Duplicated(df))))
    \cup Under("data_types", DataTypeLeaves(df, analyze_data_types(df)))
    \cup Under("inconsistencies", analyze_inconsistencies(df))
    \cup Under("outliers", OutlierLeaves(df, OutlierNumericColumns(df)))
    \cup Under("correlations", analyze_correlations(df))
    \cup PipelineDriftLeaves(reference_df, df)
    \cup PipelineSummaryLeaves(df, cleaned_df)

(***************************************************************************)
(* Specification SpecAnalyze: the analyzers are called on the caller's     *)
(* dataset, in any order and any number of times; report is what the last  *)
(* call returned.                                                          *)
(***************************************************************************)
\* a dataset of n rows whose last d rows repeat the first one
BigFrame(n, d) ==
    [columns |-> <<"value", "name">>,
     dtypes |-> [c \in {"value", "name"} |-> IF c = "value" THEN "float64" ELSE "object"],
     index |-> RangeIndex(n),
     data |-> [c \in {"value", "name"} |->
                 [i \in 1..n |-> IF c = "name" THEN Str(<<"a">>)
                                 ELSE IF i <= n - d THEN Num(i * Scale) ELSE Num(Scale)]]]

BigSizes == {10, 12, 100, 120}

\* twelve rows, the last number beyond the upper fence of the quartiles
SpikeFrame == [BigFrame(12, 0) EXCEPT !.data["value"][12] = Num(20 * Scale)]

BigFrames == {BigFrame(n, d) : n \in BigSizes, d \in 0..MaxDuplicateRows}

\* no rows and no columns
NoColumns == [columns |-> <<>>, dtypes |-> <<>>, index |-> <<>>, data |-> <<>>]

\* text columns: values that differ in whitespace, case, punctuation and
\* digits; two frequent values and a rare one; eleven values of uneven length
MessyTexts == << <<" ", "a">>, <<"a">>, <<"A">>, <<"a", " ", "!">>, <<"a", "1">> >>

RareTexts == [i \in 1..11 |-> IF i <= 5 THEN <<"a">> ELSE IF i <= 10 THEN <<"b">> ELSE <<"e">>]

UnevenTexts ==
    << <<"a">>, <<"b">>, <<"e">>, <<"k">>, <<"n">>, <<"o">>, <<"u">>, <<"w">>,
       <<"a", "b">>, <<"a", "e">>, [i \in 1..12 |-> "a"] >>

\* a dataset whose name column holds the texts, and whose value column holds
\* either numbers or the same texts
TextFrame(texts, both) ==
    [columns |-> <<"value", "name">>,
     dtypes |-> [c \in {"value", "name"} |-> IF c = "value" /\ ~both THEN "float64" ELSE "object"],
     index |-> RangeIndex(Len(texts)),
     data |-> [c \in {"value", "name"} |->
                 [i \in 1..Len(texts) |-> IF c = "value" /\ ~both THEN Num(i * Scale)
                                           ELSE Str(texts[i])]]]

\* two numeric columns under the names, the second one rising with the first
\* one, falling, or constant
NamePairs == {<<"value", "amount">>, <<"code", "value">>, <<"Id", "value">>, <<"Id", "code">>}

NamedFrame(names, slope) ==
    [columns |-> names,
     dtypes |-> [c \in {names[1], names[2]} |-> "float64"],
     index |-> RangeIndex(3),
     data |-> [c \in {names[1], names[2]} |->
                 [i \in 1..3 |-> IF c = names[1] THEN Num(i * Scale)
                                 ELSE Num((4 + slope * i) * Scale)]]]

NamedFrames == {NamedFrame(names, slope) : names \in NamePairs, slope \in {0 - 1, 0, 1}}

TextFrames == {TextFrame(texts, both) : texts \in {MessyTexts, RareTexts, UnevenTexts}, both \in BOOLEAN}

AnalysisFrames ==
    {Frame(rows, "float64") : rows \in RowSeqs(MaxAnalysisRows)} \cup {NoColumns} \cup BigFrames
    \cup TextFrames \cup NamedFrames \cup {SpikeFrame}

\* the dataset with delta added to the numbers of its numeric columns
Shifted(df, delta) ==
    [df EXCEPT !.data = [c \in ColSet(df) |->
        [i \in 1..NRows(df) |->
            IF df.data[c][i].t = "num" THEN Num(df.data[c][i].n + delta) ELSE df.data[c][i]]]]

\* an identical copy, or every number moved past the largest one
FarShift == 2 * MaxDriftRows * Scale

DriftShifts == {0, FarShift}

InitAnalyze ==
    /\ entry = ""
    /\ df_input \in AnalysisFrames
    /\ df_caller = df_input
    /\ req = NoArgs
    /\ cfg = NoArgs
    /\ cleaned = df_input
    /\ same_object = TRUE
    /\ trace = <<>>
    /\ legacy_fillna = FALSE
    /\ AnalysisIdle
    /\ ApiIdle
    /\ ScoreIdle

\* the analyzers that create frames and write them
FrameWriters == <<"analyze_duplicates", "analyze_outliers">>

\* out is the [heap, ref] after the call, the caller's object heap[1]; trace
\* holds the frame writers called before this call
Analyzed(name, reference_df, out, leaves) ==
    /\ entry' = name
    /\ reference' = reference_df
    /\ report' = leaves
    /\ df_caller' = out.heap[1]
    /\ trace' = SelectSeq(FrameWriters,
                         LAMBDA w : w = entry \/ \E k \in 1..Len(trace) : trace[k] = w)
    /\ UNCHANGED <<df_input, req, cfg, cleaned, same_object, legacy_fillna, apiVars, scoreVars>>

CallProfileDataset ==
    Analyzed("profile_dataset", reference, Ret(<<df_caller>>, 1), profile_dataset(df_caller))

CallAnalyzeMissingValues ==
    Analyzed("analyze_missing_values", reference, Ret(<<df_caller>>, 1),
             analyze_missing_values(df_caller))

AnalyzeDuplicatesReturns(st, count) ==
    Analyzed("analyze_duplicates", reference, DuplicateFrames(st, count),
             DuplicateLeaves(Deref(st), count))

CallAnalyzeDuplicates ==
    AnalyzeDuplicatesReturns(Ret(<<df_caller>>, 1), CountTrue(Duplicated(df_caller)))

CallAnalyzeDataTypes ==
    Analyzed("analyze_data_types", reference, Ret(<<df_caller>>, 1),
             DataTypeLeaves(df_caller, analyze_data_types(df_caller)))

CallAnalyzeInconsistencies ==
    Analyzed("analyze_inconsistencies", reference, Ret(<<df_caller>>, 1),
             analyze_inconsistencies(df_caller))

\* outliers.py lines 24-29: the numeric columns are copied, the copy is written
OutlierFrames(st, numeric_cols) ==
    IF Len(numeric_cols) = 0 THEN st
    ELSE DfCopy(New(st, DropColumns(Deref(st),
                                    ColSet(Deref(st)) \ {numeric_cols[k] : k \in 1..Len(numeric_cols)})))

AnalyzeOutliersReturns(st, numeric_cols) ==
    Analyzed("analyze_outliers", reference, OutlierFrames(st, numeric_cols),
             OutlierLeaves(Deref(st), numeric_cols))

CallAnalyzeOutliers ==
    AnalyzeOutliersReturns(Ret(<<df_caller>>, 1), OutlierNumericColumns(df_caller))

CallAnalyzeCorrelations ==
    Analyzed("analyze_correlations", reference, Ret(<<df_caller>>, 1),
             analyze_correlations(df_caller))

\* analyze_drift(reference, dataset), the order of run_pipeline.py line 106
CallAnalyzeDrift ==
    /\ NRows(df_caller) <= MaxDriftRows
    /\ \E delta \in DriftShifts :
        Analyzed("analyze_drift", Shifted(df_caller, delta), Ret(<<df_caller>>, 1),
                 analyze_drift(Shifted(df_caller, delta), df_caller))

\* run_full_pipeline(df_input=..., reference_df=...) and the report it returns
CallRunFullPipelineReport ==
    /\ NRows(df_caller) <= MaxDriftRows
    /\ Len(df_caller.columns) > 0
    /\ \E reference_df \in {NoReference, df_caller, Shifted(df_caller, FarShift)} :
        Analyzed("run_full_pipeline", reference_df, Ret(<<df_caller>>, 1),
                 FinalReport(df_caller, reference_df,
                             Deref(run_full_pipeline(Ret(<<df_caller>>, 1), "auto"))))

NextAnalyze ==
    \/ CallProfileDataset
    \/ CallAnalyzeMissingValues
    \/ CallAnalyzeDuplicates
    \/ CallAnalyzeDataTypes
    \/ CallAnalyzeInconsistencies
    \/ CallAnalyzeOutliers
    \/ CallAnalyzeCorrelations
    \/ CallAnalyzeDrift
    \/ CallRunFullPipelineReport

SpecAnalyze == InitAnalyze /\ [][NextAnalyze]_vars

(***************************************************************************)
(* api.py: the HTTP service.  A handler takes the job storage and returns  *)
(* [storage, response]; the response is what the handler returns or the    *)
(* HTTPException it raises.  An upload is its file name, the size of its   *)
(* content ("empty": no bytes, "large": more than 100 * 1024 * 1024 bytes) *)
(* and the rows of the CSV text.                                           *)
(***************************************************************************)
Job(cleaned_df, filename) == [cleaned_df |-> cleaned_df, original_filename |-> filename]

\* job_storage[job_id] = job
PutJob(storage, job_id, job) ==
    [k \in DOMAIN storage \cup {job_id} |-> IF k = job_id THEN job ELSE storage[k]]

\* del job_storage[job_id]
DelJob(storage, job_id) == [k \in DOMAIN storage \ {job_id} |-> storage[k]]

Answer(storage, status, job_id, has_report, count, pipeline) ==
    [storage |-> storage,
     response |-> [status |-> status, job_id |-> job_id, has_report |-> has_report,
                   count |-> count, pipeline |-> pipeline]]

\* the state a try block ends in: exc is the exception raised in it, "" when
\* it ran to its return
Outcome(exc, storage, job_id, pipeline) ==
    [exc |-> exc, storage |-> storage, job_id |-> job_id, pipeline |-> pipeline]

\* load_csv_smart (run_pipeline.py lines 40-57): pd.read_csv raises
\* EmptyDataError on a text without columns
LoadRaises(upload) == upload.size = "empty"

\* a faulty variant, for the sensitivity of the properties: the job is stored before the pipeline is run
TryPipeline_StoreFirst(storage, upload, duplicate_strategy, job_id) ==
    IF upload.size = "large"
    THEN Outcome("HTTPException 413", storage, 0, "not invoked")
    ELSE IF LoadRaises(upload)
    THEN Outcome("EmptyDataError",
                 PutJob(storage, job_id, Job(Frame(<<>>, "float64"), upload.filename)),
                 0, "raised")
    ELSE Outcome("",
                 PutJob(storage, job_id,
                        Job(Deref(run_full_pipeline(Ret(<<Frame(upload.rows, "float64")>>, 1),
                                                    duplicate_strategy)),
                            upload.filename)),
                 job_id, "returned")

\* the try block of analyze_file (lines 93-118) and of clean_file (lines
\* 136-165): the size check, the pipeline, the new job
TryPipeline(storage, upload, duplicate_strategy, job_id) ==
    IF upload.size = "large"
    THEN Outcome("HTTPException 413", storage, 0, "not invoked")
    ELSE IF LoadRaises(upload)
    THEN Outcome("EmptyDataError", storage, 0, "raised")
    ELSE Outcome("",
                 PutJob(storage, job_id,
                        Job(Deref(run_full_pipeline(Ret(<<Frame(upload.rows, "float64")>>, 1),
                                                    duplicate_strategy)),
                            upload.filename)),
                 job_id, "returned")

\* except Exception (lines 120-121, 167-168): whatever was raised in the try
\* block, an HTTPException too, is answered with status 500
ExceptException(out) ==
    IF out.exc # ""
    THEN Answer(out.storage, 500, 0, FALSE, 0, out.pipeline)
    ELSE Answer(out.storage, 200, out.job_id, TRUE, 0, out.pipeline)

\* file.filename.endswith('.csv') (lines 89, 132)
EndsWithCsv(filename) == filename = "data.csv"

\* POST /analyze (lines 83-121); job_id is the uuid of line 105
analyze_file(storage, upload, duplicate_strategy, job_id) ==
    IF ~EndsWithCsv(upload.filename)
    THEN Answer(storage, 400, 0, FALSE, 0, "not invoked")
    ELSE ExceptException(TryPipeline(storage, upload, duplicate_strategy, job_id))

\* POST /clean (lines 124-168); the two other strategies are not passed on
clean_file(storage, upload, duplicate_strategy, missing_strategy, outlier_method, job_id) ==
    IF ~EndsWithCsv(upload.filename)
    THEN Answer(storage, 400, 0, FALSE, 0, "not invoked")
    ELSE ExceptException(TryPipeline(storage, upload, duplicate_strategy, job_id))

\* a faulty variant, for the sensitivity of the properties: a download takes the job out of the storage
download_cleaned_file_Pops(storage, job_id) ==
    IF job_id \notin DOMAIN storage
    THEN Answer(storage, 404, 0, FALSE, 0, "not invoked")
    ELSE Answer(DelJob(storage, job_id), 200, 0, FALSE, NRows(storage[job_id].cleaned_df), "not invoked")

\* GET /download/{job_id} (lines 171-200); count is the number of rows written
download_cleaned_file(storage, job_id) ==
    IF job_id \notin DOMAIN storage
    THEN Answer(storage, 404, 0, FALSE, 0, "not invoked")
    ELSE Answer(storage, 200, 0, FALSE, NRows(storage[job_id].cleaned_df), "not invoked")

\* DELETE /job/{job_id} (lines 203-210)
delete_job(storage, job_id) ==
    IF job_id \in DOMAIN storage
    THEN Answer(DelJob(storage, job_id), 200, 0, FALSE, 0, "not invoked")
    ELSE Answer(storage, 404, 0, FALSE, 0, "not invoked")

\* GET /jobs (lines 213-225): count is total
list_jobs(storage) == Answer(storage, 200, 0, FALSE, Cardinality(DOMAIN storage), "not invoked")

\* GET /health (lines 74-80): count is active_jobs
health_check(storage) == Answer(storage, 200, 0, FALSE, Cardinality(DOMAIN storage), "not invoked")

(***************************************************************************)
(* Specification SpecApi: requests arrive one at a time, in any order.     *)
(***************************************************************************)
\* the CSV texts: a header only, one row, two equal rows, a row of missing cells
UploadRows == {<<>>, <<1>>, <<1, 1>>, <<4>>}

Uploads ==
    {[filename |-> f, size |-> "small", rows |-> r] : f \in {"data.csv", "data.txt"}, r \in UploadRows}
    \cup {[filename |-> f, size |-> z, rows |-> <<>>] : f \in {"data.csv", "data.txt"}, z \in {"empty", "large"}}

JobIds == 1..MaxJobs

UploadRequest(route, upload) ==
    [route |-> route, job_id |-> 0, filename |-> upload.filename, size |-> upload.size,
     rows |-> upload.rows]

JobRequest(route, job_id) == [NoRequest EXCEPT !.route = route, !.job_id = job_id]

InitApi ==
    /\ CleanIdle
    /\ ScoreIdle

\* the request is answered; returned_jobs follows the answers the callers got
Answered(asked, answer) ==
    /\ request' = asked
    /\ response' = answer.response
    /\ job_storage' = answer.storage
    /\ uuid_count' = IF answer.response.job_id > 0 THEN answer.response.job_id ELSE uuid_count
    /\ returned_jobs' =
          IF asked.route \in {"/analyze", "/clean"} /\ answer.response.status = 200
          THEN returned_jobs \cup {answer.response.job_id}
          ELSE IF asked.route = "/job" /\ answer.response.status = 200
          THEN returned_jobs \ {asked.job_id}
          ELSE returned_jobs
    /\ UNCHANGED <<cleanVars, analysisVars, scoreVars>>

PostAnalyze ==
    /\ uuid_count < MaxJobs
    /\ \E upload \in Uploads, ds \in {"flag", "remove"} :
        Answered(UploadRequest("/analyze", upload),
                 analyze_file(job_storage, upload, ds, uuid_count + 1))

PostClean ==
    /\ uuid_count < MaxJobs
    /\ \E upload \in Uploads, ds \in {"flag", "remove"} :
        Answered(UploadRequest("/clean", upload),
                 clean_file(job_storage, upload, ds, "median", "clip", uuid_count + 1))

GetDownload ==
    \E job_id \in JobIds :
        Answered(JobRequest("/download", job_id), download_cleaned_file(job_storage, job_id))

DeleteJob ==
    \E job_id \in JobIds :
        Answered(JobRequest("/job", job_id), delete_job(job_storage, job_id))

GetJobs == Answered(JobRequest("/jobs", 0), list_jobs(job_storage))

GetHealth == Answered(JobRequest("/health", 0), health_check(job_storage))

NextApi == PostAnalyze \/ PostClean \/ GetDownload \/ DeleteJob \/ GetJobs \/ GetHealth

SpecApi == InitApi /\ [][NextApi]_vars

(***************************************************************************)
(* Specification SpecValues: one call of clean_dataset with the analyzers' *)
(* reports, or of normalize_text_columns, on a dataset whose numeric       *)
(* column holds whole numbers and whose text column holds punctuation.     *)
(***************************************************************************)
MaxValueRows == 3

ValueRowKinds ==
    << [value |-> Num(Scale), name |-> Str(<<"a">>)],
       [value |-> Num(2 * Scale), name |-> Str(<<"a", " ", "!">>)],
       [value |-> NaN, name |-> Str(<<" ", "A", " ", " ", "b", " ">>)],
       [value |-> Num(Scale \div 2), name |-> Str(<<"-", " ", "a">>)],
       [value |-> Num(2 * Scale), name |-> NaN] >>

ValueFrame(rows) ==
    [columns |-> <<"value", "name">>,
     dtypes |-> [c \in {"value", "name"} |-> IF c = "value" THEN "float64" ELSE "object"],
     index |-> RangeIndex(Len(rows)),
     data |-> [c \in {"value", "name"} |-> [i \in 1..Len(rows) |-> ValueRowKinds[rows[i]][c]]]]

ValueFrames == {ValueFrame(rows) : rows \in UNION {[1..k -> 1..Len(ValueRowKinds)] : k \in 0..MaxValueRows}}

InitValues ==
    /\ entry = ""
    /\ df_input \in ValueFrames
    /\ df_caller = df_input
    /\ req = NoArgs
    /\ cfg = NoArgs
    /\ cleaned = df_input
    /\ same_object = TRUE
    /\ trace = <<>>
    /\ legacy_fillna = TRUE
    /\ AnalysisIdle
    /\ ApiIdle
    /\ ScoreIdle

\* clean_dataset as run_full_pipeline calls it (run_pipeline.py lines 112-119),
\* with each missing-value strategy
CallCleanWithReports ==
    /\ entry = ""
    /\ \E ds \in KnownDuplicateStrategies, ms \in MissingStrategies :
        CleanDatasetReturns([PipelineCleanArgs(df_input, ds) EXCEPT !.missing_strategy = ms])

\* normalize_text_columns(df, aggressive); req and cfg record the aggressive
\* flag in their normalize_text field
CallNormalizeTextColumns ==
    /\ entry = ""
    /\ \E aggressive \in BOOLEAN :
        StepReturns("normalize_text_columns", [NoArgs EXCEPT !.normalize_text = aggressive],
                    normalize_text_columns(Ret(<<df_input>>, 1), aggressive))

NextValues == CallCleanWithReports \/ CallNormalizeTextColumns

SpecValues == InitValues /\ [][NextValues]_vars


(***************************************************************************)
(* Properties of the cleaning stage's entry points (specification Spec).   *)
(***************************************************************************)
\* C1: when the duplicate strategy is "remove" and the analyzer's duplicate
\* report is passed, the dataset clean_dataset returns has no two equal rows,
\* whatever the dataset and the other options.
C1_NoDuplicateRowsAfterRemove ==
    (/\ entry \in {"clean_dataset", "run_full_pipeline", "clean_file"}
     /\ cfg.duplicate_strategy = "remove"
     /\ cfg.duplicate_report.present)
        => CountTrue(Duplicated(cleaned)) = 0

\* C2: the strategies the caller supplies are the ones clean_dataset runs
\* with: the duplicate strategy given to run_full_pipeline or to the clean
\* endpoint, and the endpoint's missing strategy and outlier method.
C2_SuppliedStrategiesAreUsed ==
    /\ entry \in {"run_full_pipeline", "clean_file"}
        => cfg.duplicate_strategy = req.duplicate_strategy
    /\ entry = "clean_file"
        => /\ cfg.missing_strategy = req.missing_strategy
           /\ cfg.outlier_method = req.outlier_method

\* C7: clean_dataset and run_full_pipeline(df_input=...) leave the caller's
\* dataset as it was (columns, types, index and cells), and the dataset they
\* return is another object.
C7_CallerDatasetUnchanged ==
    entry \in {"clean_dataset", "run_full_pipeline"}
        => df_caller = df_input /\ ~same_object

\* a call that flagged duplicate rows and changed cells of the value column
C7_Witness ==
    /\ entry = "run_full_pipeline"
    /\ "_is_duplicate" \in ColSet(cleaned)
    /\ cleaned.data["value"] # df_input.data["value"]
    /\ df_caller = df_input

\* what clean_dataset returns on a fresh copy of the input with other arguments
CleanedWith(args) == Deref(clean_dataset(Ret(<<df_input>>, 1), args))

\* C8: an unrecognized strategy token raises nothing and falls back: the call
\* returns what it returns with "median" for a missing strategy, with "keep"
\* for a duplicate strategy, and without the outlier step for an outlier
\* method (no value is changed).
C8_UnrecognizedTokensFallBack ==
    entry = "clean_dataset" =>
        /\ cfg.missing_strategy \notin KnownMissingStrategies
            => cleaned = CleanedWith([cfg EXCEPT !.missing_strategy = "median"])
        /\ cfg.duplicate_strategy \notin KnownDuplicateStrategies
            => cleaned = CleanedWith([cfg EXCEPT !.duplicate_strategy = "keep"])
        /\ cfg.outlier_method \notin KnownOutlierMethods
            => cleaned = CleanedWith([cfg EXCEPT !.outlier_report = NoOutlierReport])

\* an unrecognized missing strategy filled a numeric column whose median and
\* mean differ
C8_Witness ==
    /\ entry = "clean_dataset"
    /\ cfg.missing_strategy \notin KnownMissingStrategies
    /\ MissingIn(df_input.data["value"]) > 0
    /\ Median(df_input.data["value"]) # Mean(df_input.data["value"])
    /\ "value" \in ColSet(cleaned)
    /\ MissingIn(cleaned.data["value"]) = 0

TransformOrder ==
    <<"impute", "duplicates", "types", "text", "outliers", "constants", "reindex">>

Rank(step) == CHOOSE k \in 1..Len(TransformOrder) : TransformOrder[k] = step

\* C18: a run of clean_dataset applies each transform at most once and in the
\* order imputation, duplicates, types, text, outliers, constant columns (when
\* requested), and the reindex last.
C18_TransformsInFixedOrder ==
    entry \in {"clean_dataset", "run_full_pipeline", "clean_file"} =>
        /\ \A i \in 1..Len(trace) : \E k \in 1..Len(TransformOrder) : TransformOrder[k] = trace[i]
        /\ \A i \in 1..Len(trace) : \A j \in (i + 1)..Len(trace) : Rank(trace[i]) < Rank(trace[j])
        /\ trace[1] = "impute"
        /\ trace[Len(trace)] = "reindex"
        /\ (\E i \in 1..Len(trace) : trace[i] = "constants") <=> cfg.remove_constants

\* a run with every report and every option: all seven transforms
C18_Witness ==
    /\ entry = "clean_dataset"
    /\ trace = TransformOrder
    /\ NRows(df_input) > 0

(***************************************************************************)
(* Properties of the single steps (specification SpecSteps).               *)
(***************************************************************************)
\* C6: handle_outliers with "clip" returns as many rows as it was given, and
\* with "remove" at most as many.
C6_OutlierRowCounts ==
    entry = "handle_outliers" =>
        /\ cfg.outlier_method = "clip" => NRows(cleaned) = NRows(df_input)
        /\ cfg.outlier_method = "remove" => NRows(cleaned) <= NRows(df_input)

\* "clip" moved a value to a bound
C6_Witness ==
    /\ entry = "handle_outliers"
    /\ cfg.outlier_method = "clip"
    /\ cfg.outlier_report.present
    /\ cleaned.data["value"] # df_input.data["value"]
    /\ NRows(cleaned) = NRows(df_input)

\* the report the step of the call takes is absent
ReportAbsent ==
    \/ entry = "handle_duplicates" /\ ~cfg.duplicate_report.present
    \/ entry = "fix_data_types" /\ ~cfg.dtype_report.present
    \/ entry = "handle_outliers" /\ ~cfg.outlier_report.present

\* C9: a step whose report is absent is a pass-through: the duplicate step
\* adds no column and drops no row whatever the strategy, the type step
\* changes no column type, the outlier step changes no value.
C9_AbsentReportPassThrough == ReportAbsent => cleaned = df_input

\* C10: after impute_missing_values no column has a missing value, for every
\* strategy, a column with every value missing included (where fillna still
\* takes the method argument).
C10_NoMissingAfterImpute ==
    (entry = "impute_missing_values" /\ legacy_fillna)
        => \A c \in ColSet(cleaned) : MissingIn(cleaned.data[c]) = 0

(***************************************************************************)
(* Properties of the Quality Scorer (specification SpecScore).             *)
(***************************************************************************)
\* C3: the quality score is an integer from 0 to 100.
C3_ScoreInRange == quality.score \in 0..100

\* every penalty at its maximum, the missing-data penalty above its cap
C3_Witness ==
    /\ MissingPenalty(MissingDetails(missing_counts, total_rows)) > 30
    /\ quality.breakdown.duplicate_impact = 15
    /\ quality.breakdown.outlier_impact = 10
    /\ quality.breakdown.inconsistency_impact = 15
    /\ quality.score = 30

\* C4: the score does not rise when the missing percentage of a column, the
\* duplicate percentage, the total outlier count or the number of columns
\* with inconsistency issues rises and the rest stays.
C4_ScoreMonotone == [][quality'.score <= quality.score]_vars

\* the duplicate percentage has passed both upper tiers and lowered the score
C4_Witness ==
    /\ duplicate_count * 10 = total_rows
    /\ quality.breakdown.duplicate_impact = 15
    /\ quality.score < 100

\* the score as the specification computes it, from the exact fractions: a
\* column with a missing cell costs 2, above 5% 5, above 20% 10, 30 at most in
\* total; duplicate rows cost 3, above 1% 8, above 5% 15
ReferenceColumnPenalty(count, rows) ==
    IF count * 100 > 20 * rows THEN 10
    ELSE IF count * 100 > 5 * rows THEN 5
    ELSE IF count > 0 THEN 2 ELSE 0

ReferenceDuplicatePenalty(count, rows) ==
    IF count * 100 > 5 * rows THEN 15
    ELSE IF count * 100 > rows THEN 8
    ELSE IF count > 0 THEN 3 ELSE 0

ReferenceScore ==
    Max2(100
         - Min2(SumSeq([i \in 1..Len(missing_counts) |->
                          ReferenceColumnPenalty(missing_counts[i], total_rows)]), 30)
         - ReferenceDuplicatePenalty(duplicate_count, total_rows)
         - OutlierImpact(total_outliers)
         - InconsistencyImpact(issue_counts[1] + issue_counts[2] + issue_counts[3]),
         0)

\* C5: on the reports the analyzers write, the scorer gives the reference
\* score; every column with a missing cell and every dataset with a duplicate
\* row has a penalty above zero.
C5_ScoreMatchesReference == quality.score = ReferenceScore

(***************************************************************************)
(* Properties of the analyzers and of the combined report (specification   *)
(* SpecAnalyze).                                                           *)
(***************************************************************************)
PlainTypes == {"int", "float", "bool", "str", "NoneType"}

\* C11: every value of the combined report run_full_pipeline returns is a
\* plain integer, float, boolean or string, never a numpy scalar.
C11_ReportValuesArePlain ==
    entry = "run_full_pipeline" => \A e \in report : e.val.py \in PlainTypes

NoMissingCell(df) == \A c \in ColSet(df) : \A i \in 1..NRows(df) : df.data[c][i].t # "nan"

\* C12: in the report of analyze_missing_values, rows_with_any_missing and
\* complete_rows add up to the number of rows, and on a dataset without a
\* missing cell complete_rows is the number of rows and rows_with_any_missing 0.
C12_CompleteRowsAddUp ==
    entry = "analyze_missing_values" =>
        /\ At(report, <<"summary", "rows_with_any_missing">>).v
           + At(report, <<"summary", "complete_rows">>).v = NRows(df_input)
        /\ NoMissingCell(df_input) =>
              /\ At(report, <<"summary", "complete_rows">>).v = NRows(df_input)
              /\ At(report, <<"summary", "rows_with_any_missing">>).v = 0

\* dataset with rows and no missing cell, and one with a row missing twice
C12_Witness ==
    /\ entry = "analyze_missing_values"
    /\ \/ /\ NRows(df_input) >= 2
          /\ NoMissingCell(df_input)
          /\ At(report, <<"summary", "complete_rows">>).v = NRows(df_input)
       \/ /\ At(report, <<"summary", "total_missing_values">>).v > NRows(df_input)
          /\ At(report, <<"summary", "complete_rows">>).v = 0

SummaryNumbers ==
    {"total_missing_values", "overall_missing_percentage", "columns_with_missing",
     "rows_with_any_missing", "complete_rows"}

IsZero(val) == ~val.nan /\ val.v = 0

\* C13: on a dataset without rows, analyze_missing_values reports no details,
\* no patterns, and 0 for every number of the summary.
C13_EmptyDatasetZeroedReport ==
    (entry = "analyze_missing_values" /\ NRows(df_input) = 0) =>
        /\ \A e \in report : e.path[1] = "summary"
        /\ \A k \in SummaryNumbers :
              /\ Has(report, <<"summary", k>>)
              /\ IsZero(At(report, <<"summary", k>>))

\* the rows of df_input that equal an earlier row
LaterCopies == {i \in 1..NRows(df_input) : \E j \in 1..(i - 1) : Row(df_input, j) = Row(df_input, i)}

\* the severity from the exact share count / rows: None at 0, Low below 1%,
\* Medium below 5%, High from 5% on
SeverityOfShare(count, rows) ==
    IF count = 0 THEN "None"
    ELSE IF 100 * count < rows THEN "Low"
    ELSE IF 100 * count < 5 * rows THEN "Medium"
    ELSE "High"

\* C14: analyze_duplicates reports as duplicate_count the number of rows equal
\* to an earlier row and the severity of the exact percentage; no duplicate row
\* gives 0 and None, 5 duplicate rows among 100 give 5.0 percent and High.
C14_DuplicateCountAndSeverity ==
    entry = "analyze_duplicates" =>
        /\ At(report, <<"duplicate_count">>).v = Cardinality(LaterCopies)
        /\ At(report, <<"severity">>).s = SeverityOfShare(Cardinality(LaterCopies), NRows(df_input))
        /\ LaterCopies = {} =>
              /\ At(report, <<"duplicate_count">>).v = 0
              /\ At(report, <<"severity">>).s = "None"
        /\ (NRows(df_input) = 100 /\ Cardinality(LaterCopies) = 5) =>
              /\ At(report, <<"duplicate_percent">>).v = 500
              /\ At(report, <<"severity">>).s = "High"

C14_Witness ==
    /\ entry = "analyze_duplicates"
    /\ NRows(df_input) = 100
    /\ At(report, <<"duplicate_count">>).v = 5
    /\ At(report, <<"severity">>).s = "High"

DriftDetails(key) == {e \in report : Len(e.path) = 3 /\ e.path[1] = "drift_details" /\ e.path[3] = key}

\* C15: analyze_drift on a dataset and an identical copy of it reports, for
\* every column of drift_details, normalized_drift 0, distribution_changed
\* False and severity None, and overall_severity Low.
C15_NoDriftAgainstCopy ==
    (entry = "analyze_drift" /\ reference = df_input) =>
        /\ \A e \in DriftDetails("normalized_drift") : IsZero(e.val)
        /\ \A e \in DriftDetails("distribution_changed") : e.val.v = 0
        /\ \A e \in DriftDetails("severity") : e.val.s = "None"
        /\ Has(report, <<"overall_severity">>) => At(report, <<"overall_severity">>).s = "Low"

\* a column with ten values or more and a range above zero is listed
C15_Witness ==
    /\ entry = "analyze_drift"
    /\ reference = df_input
    /\ DriftDetails("normalized_drift") # {}
    /\ DriftDetails("distribution_changed") # {}
    /\ At(report, <<"overall_severity">>).s = "Low"

Analyzers ==
    {"profile_dataset", "analyze_missing_values", "analyze_duplicates", "analyze_data_types",
     "analyze_inconsistencies", "analyze_outliers", "analyze_correlations", "analyze_drift"}

\* what the analyzer reports when it is the only one ever called on df
ReportOf(name, df, reference_df) ==
    CASE name = "profile_dataset" -> profile_dataset(df)
      [] name = "analyze_missing_values" -> analyze_missing_values(df)
      [] name = "analyze_duplicates" -> DuplicateLeaves(df, CountTrue(Duplicated(df)))
      [] name = "analyze_data_types" -> DataTypeLeaves(df, analyze_data_types(df))
      [] name = "analyze_inconsistencies" -> analyze_inconsistencies(df)
      [] name = "analyze_outliers" -> OutlierLeaves(df, OutlierNumericColumns(df))
      [] name = "analyze_correlations" -> analyze_correlations(df)
      [] name = "analyze_drift" -> analyze_drift(reference_df, df)

\* C16: whatever analyzers were called before and in whatever order, the
\* caller's dataset is as it was given and the report of an analyzer is the
\* one it gives when called alone.
C16_AnalyzersReadOnly ==
    entry \in Analyzers =>
        /\ df_caller = df_input
        /\ report = ReportOf(entry, df_input, reference)

\* an analyzer called after analyze_duplicates and analyze_outliers have
\* created and written their frames for a dataset with duplicate rows
C16_Witness ==
    /\ entry = "analyze_missing_values"
    /\ trace = FrameWriters
    /\ \E i \in 1..NRows(df_input) : \E j \in 1..(i - 1) : Row(df_input, j) = Row(df_input, i)
    /\ df_caller = df_input

(***************************************************************************)
(* Properties of the HTTP service (specification SpecApi).                 *)
(***************************************************************************)
\* C17: when the pipeline raises during a request, the request is answered
\* with one error (status 500) that carries no report and no job id, and the
\* job storage is as it was before the request.
C17_PipelineExceptionLeavesNoJob ==
    [][response'.pipeline = "raised" =>
          /\ response'.status = 500
          /\ ~response'.has_report
          /\ response'.job_id = 0
          /\ job_storage' = job_storage]_vars

\* the pipeline raised while a job of an earlier request was stored
C17_Witness ==
    /\ request.route \in {"/analyze", "/clean"}
    /\ response.pipeline = "raised"
    /\ response.status = 500
    /\ DOMAIN job_storage # {}

\* C19: an upload of a .csv file with more than 100 MB of content is answered
\* with status 413 by /analyze and by /clean, without a run of the pipeline and
\* without a job.
C19_OversizedUploadRejected ==
    (request.route \in {"/analyze", "/clean"} /\ request.filename = "data.csv"
     /\ request.size = "large") =>
        /\ response.status = 413
        /\ response.pipeline = "not invoked"
        /\ response.job_id = 0

C21_CandidatesBecomeNullableInt ==
    (entry = "clean_dataset" /\ cfg.dtype_report = analyze_data_types(df_input)) =>
        \A k \in 1..Len(cfg.dtype_report.float_int_candidates) :
            /\ cfg.dtype_report.float_int_candidates[k] \in ColSet(cleaned)
            /\ cleaned.dtypes[cfg.dtype_report.float_int_candidates[k]] = "Int64"

\* C25: after normalize_text_columns, in aggressive mode as in non-aggressive
\* mode, no value of a text column begins or ends with a whitespace character.
C25_TextIsTrimmed ==
    entry = "normalize_text_columns" =>
        \A c \in ColSet(cleaned) :
            cleaned.dtypes[c] = "object" =>
                \A i \in 1..Len(cleaned.data[c]) :
                    (cleaned.data[c][i].t = "str" /\ cleaned.data[c][i].s # <<>>) =>
                        /\ ~IsSpace(Head(cleaned.data[c][i].s))
                        /\ ~IsSpace(cleaned.data[c][i].s[Len(cleaned.data[c][i].s)])

(***************************************************************************)
(* Properties of the analyzers' reports, continued (specification          *)
(* SpecAnalyze).                                                           *)
(***************************************************************************)
\* the columns missing in row i
MissingPattern(df, i) == {c \in ColSet(df) : IsNa(df.data[c][i])}

\* the columns the k-th listed pattern names
ListedColumns(k) ==
    {l.val.s : l \in {x \in report : /\ Len(x.path) = 4
                                     /\ x.path[1] = "missing_patterns"
                                     /\ x.path[2] = k
                                     /\ x.path[3] = "columns"}}

\* C22: when two or more columns have missing cells, every missingness
\* pattern of a row that involves two or more columns is listed in
\* missing_patterns with the number of rows that have it (a dataset of two
\* columns has one such pattern, so none can be crowded out by five others).
C22_MultiColumnPatternsListed ==
    (entry = "analyze_missing_values" /\ Cardinality(ColumnsWithMissing(df_input)) >= 2) =>
        \A i \in 1..NRows(df_input) :
            Cardinality(MissingPattern(df_input, i)) >= 2 =>
                \E k \in {"0", "1", "2", "3", "4"} :
                    /\ ListedColumns(k) = MissingPattern(df_input, i)
                    /\ Has(report, <<"missing_patterns", k, "occurrences">>)
                    /\ At(report, <<"missing_patterns", k, "occurrences">>).v =
                           Cardinality({j \in 1..NRows(df_input) :
                               MissingPattern(df_input, j) = MissingPattern(df_input, i)})

\* the finding types of the Inconsistency Analyzer, by their report sections
FindingTypes ==
    {"strip_issues", "case_issues", "special_char_issues", "mixed_alphanumeric",
     "rare_categories", "inconsistent_formats"}

\* the columns the report lists under a finding type
ReportedColumns(section) ==
    {l.path[2] : l \in {x \in report : Len(x.path) >= 2 /\ x.path[1] = section}}

\* a column counted once per finding type it is listed under
FindingTotal ==
    Cardinality({p \in FindingTypes \X ColSet(df_input) : p[2] \in ReportedColumns(p[1])})

\* C23: for a dataset with a text column, summary.columns_with_issues is the
\* number of (finding type, column) pairs over the six finding types of the
\* report, and the severity is None for 0, Low up to 2, Medium up to 5, else High.
C23_SeverityFromAllFindings ==
    (entry = "analyze_inconsistencies" /\ Len(CategoricalColumns(df_input)) > 0) =>
        /\ At(report, <<"summary", "columns_with_issues">>).v = FindingTotal
        /\ At(report, <<"summary", "severity">>).s =
              (IF FindingTotal = 0 THEN "None"
               ELSE IF FindingTotal <= 2 THEN "Low"
               ELSE IF FindingTotal <= 5 THEN "Medium"
               ELSE "High")

\* the columns of the correlation matrix of the report
CorrelationColumns ==
    {l.path[2] : l \in {x \in report : Len(x.path) >= 2 /\ x.path[1] = "numeric_correlations"}}

\* the columns analyze_outliers reports in numeric_columns for the dataset
OutlierReportedColumns ==
    {l.val.s : l \in {x \in OutlierLeaves(df_input, OutlierNumericColumns(df_input)) :
                        x.path[1] = "numeric_columns"}}

\* C24: the numeric columns analyze_correlations considers are the columns
\* analyze_outliers reports in numeric_columns: the correlation matrix has
\* exactly those columns, and the warning that fewer than two numeric columns
\* qualify is given only when analyze_outliers reports fewer than two.
C24_SameIdentifierExclusion ==
    entry = "analyze_correlations" =>
        IF CorrelationColumns # {}
        THEN CorrelationColumns = OutlierReportedColumns
        ELSE Cardinality(OutlierReportedColumns) < 2

\* the number of rows equal to an earlier row on the columns of subset
LaterCopiesOn(subset) == CountTrue(EarlierEqual(SubsetRows(df_input, subset)))

\* the report has the subset-duplicates finding, the suggestion with it
SubsetFindingReported ==
    /\ Has(report, <<"subset_duplicates", "duplicate_count">>)
    /\ \E l \in report :
          /\ l.path[1] = "suggestions"
          /\ l.val.s = "Found more duplicates when ignoring ID columns. Consider subset-based deduplication."

\* C26: analyze_duplicates reports the subset-duplicates finding, and its
\* suggestion, exactly when the rows compared without the columns named "id" or
\* "index" have more duplicates than the rows compared on every column; a
\* dataset without such a column never gets the finding.
C26_SubsetFindingOnlyWithMoreDuplicates ==
    entry = "analyze_duplicates" =>
        /\ SubsetFindingReported <=>
              /\ Len(ImportantColumns(df_input)) > 0
              /\ LaterCopiesOn(ImportantColumns(df_input)) > LaterCopiesOn(df_input.columns)
        /\ ImportantColumns(df_input) = df_input.columns =>
              ~Has(report, <<"subset_duplicates", "duplicate_count">>)

\* the non-missing numbers of a column of the dataset
ColumnNumbers(col) == NumsOf(NonNull(df_input.data[col]))

\* the values more than three population standard deviations from the mean,
\* the numbers in halves
FarFromMean(h) ==
    {i \in 1..Len(h) :
        (Len(h) * h[i] - SumRange(h, 1, Len(h))) * (Len(h) * h[i] - SumRange(h, 1, Len(h))) >
            9 * (Len(h) * SumRange([k \in 1..Len(h) |-> h[k] * h[k]], 1, Len(h))
                 - SumRange(h, 1, Len(h)) * SumRange(h, 1, Len(h)))}

\* the values outside [Q1 - 1.5 IQR, Q3 + 1.5 IQR]
OutsideFences(v, Q1, Q3) ==
    {i \in 1..Len(v) : 2 * v[i] < 2 * Q1 - 3 * (Q3 - Q1) \/ 2 * v[i] > 2 * Q3 + 3 * (Q3 - Q1)}

\* C27: for a dataset with a qualifying numeric column, analyze_outliers
\* reports a count for every qualifying column under outliers_per_column: 0
\* with fewer than 4 non-missing values, else the larger of the number of values
\* with |z| > 3 and the number of values outside the 1.5 IQR fences, also when
\* the dataset has fewer than 10 complete rows.
C27_PerColumnCountsAlways ==
    entry = "analyze_outliers" =>
        \A k \in 1..Len(OutlierNumericColumns(df_input)) :
            /\ Has(report, <<"outliers_per_column", OutlierNumericColumns(df_input)[k]>>)
            /\ At(report, <<"outliers_per_column", OutlierNumericColumns(df_input)[k]>>).v =
                  (IF Len(ColumnNumbers(OutlierNumericColumns(df_input)[k])) < 4 THEN 0
                   ELSE Max2(Cardinality(FarFromMean(Halves(ColumnNumbers(OutlierNumericColumns(df_input)[k])))),
                             Cardinality(OutsideFences(ColumnNumbers(OutlierNumericColumns(df_input)[k]),
                                 QuantileOf(ColumnNumbers(OutlierNumericColumns(df_input)[k]), 1),
                                 QuantileOf(ColumnNumbers(OutlierNumericColumns(df_input)[k]), 3)))))

(***************************************************************************)
(* Properties of the Quality Scorer, continued (specification SpecScore).  *)
(***************************************************************************)
BreakdownTotal ==
    quality.breakdown.missing_data_impact + quality.breakdown.duplicate_impact
    + quality.breakdown.outlier_impact + quality.breakdown.inconsistency_impact

\* C28: the score is 100 less the four impacts of the breakdown, so the floor
\* at 0 does not bind and the score is 30 at least.
C28_BreakdownAccountsForScore ==
    /\ quality.score = 100 - BreakdownTotal
    /\ quality.score >= 30

\* the lowest score: the four impacts add up to 70
C28_Witness ==
    /\ BreakdownTotal = 70
    /\ quality.score = 30
    /\ quality.grade = "Critical"

====
